---- MODULE Spec2Model ----
(***************************************************************************)
(* A model of torus_triangulation: the simplex registry and recursive      *)
(* boundary construction of the box builders (builder.py,                  *)
(* edge_accumulator.py), the equivalence relation and quotient of          *)
(* cell_complex.py, the group orbits, and the backtracking search of       *)
(* triangulation_edge_finder.py.                                           *)
(*                                                                         *)
(* A point is a tuple of integers, a simplex a tuple of points.  Python    *)
(* indices are 0-based and TLA+ sequences 1-based: Python's boundary[s][i] *)
(* is boundary[s][i + 1] here.  The sources are Python 2 (__nonzero__,     *)
(* map returning a list), and are modelled with that meaning.              *)
(*                                                                         *)
(* A Python set hands out its elements in the order of its hash table:     *)
(* set.pop(), tuple(a_set) and a for loop over a set take them in any      *)
(* order.  An operation whose outcome depends on that order is modelled by *)
(* the set of its possible outcomes, and the action that calls it takes    *)
(* any of them.                                                            *)
(***************************************************************************)
EXTENDS Integers, Sequences, FiniteSets, TLC

VARIABLES
    side_length,        \* BoxBuilder.side_length, fixed at construction
    group_gens,         \* TorusQuotientBuilder.group_gens, fixed at construction
    sorted_simplices,   \* Builder._sorted_simplices: canonical key -> vertex order
    simplices,          \* Builder.simplices: number of vertices -> set of simplices
    boundary,           \* Builder.boundary: simplex -> tuple of its faces
    calls,              \* the calls the client made: arguments and outcome
    pc,                 \* where the client program is
    stack,              \* the active calls (frames), innermost last
    yielded,            \* what the generator yielded so far, with the number of times
    builder_class,      \* the class the builder was constructed from
    class_map,          \* SimplexRelation.class_map: simplex -> class
    cells,              \* the CellCollection that quotient returned
    orbit_state,        \* the locals of the running call of orbit
    pool,               \* top_orbit_iter's local set simplices: no orbit yet
    heap                \* the builders that deepcopy made: reference -> builder

vars == <<side_length, group_gens, sorted_simplices, simplices, boundary, calls,
          pc, stack, yielded, builder_class, class_map, cells, orbit_state, pool,
          heap>>

(***************************************************************************)
(* Bounds of the model.                                                    *)
(***************************************************************************)
MaxCalls == 3
MaxRegistered == 2

(***************************************************************************)
(* Python values: dicts, tuple comparison, sorted().                       *)
(***************************************************************************)
EmptyDict == [k \in {} |-> {}]

dict_set(d, k, v) == [x \in (DOMAIN d) \cup {k} |-> IF x = k THEN v ELSE d[x]]

Range(seq) == {seq[i] : i \in 1..Len(seq)}

\* Op(v) with v evaluated once, as a Python statement evaluates its
\* right-hand side once before the name is used.
Bind(v, Op(_)) == CHOOSE y \in {Op(x) : x \in {v}} : TRUE

\* Python's < on two tuples of integers: the first differing entry decides,
\* and a proper prefix is smaller.
RECURSIVE tuple_less(_, _)
tuple_less(p, q) ==
    IF q = <<>> THEN FALSE
    ELSE IF p = <<>> THEN TRUE
    ELSE IF Head(p) # Head(q) THEN Head(p) < Head(q)
    ELSE tuple_less(Tail(p), Tail(q))

RECURSIVE insert_sorted(_, _)
insert_sorted(x, seq) ==
    IF seq = <<>> THEN <<x>>
    ELSE IF tuple_less(x, Head(seq)) THEN <<x>> \o seq
    ELSE <<Head(seq)>> \o insert_sorted(x, Tail(seq))

\* sorted(simplex): the points in ascending order, duplicates kept.
RECURSIVE sorted(_)
sorted(seq) ==
    IF seq = <<>> THEN <<>>
    ELSE Bind(sorted(Tail(seq)), LAMBDA rest : insert_sorted(Head(seq), rest))

\* cartesian_product(ranges), as a set of tuples.
RECURSIVE cartesian_product(_)
cartesian_product(ranges) ==
    IF ranges = <<>> THEN {<<>>}
    ELSE {<<x>> \o t : x \in Head(ranges), t \in cartesian_product(Tail(ranges))}

\* The tuples of distinct elements of S, the empty tuple included.
RECURSIVE InjectiveTuples(_)
InjectiveTuples(S) ==
    {<<>>} \cup UNION {{<<x>> \o t : t \in InjectiveTuples(S \ {x})} : x \in S}

(***************************************************************************)
(* remove_one.py                                                           *)
(***************************************************************************)
\* A plausible slip: the slices are taken one place off, so that the i-th
\* tuple yielded lacks element i + 1 (cyclically) instead of element i.
remove_one_iter_shifted(sequence) ==
    [i \in 1..Len(sequence) |->
        LET r == (i % Len(sequence)) + 1
        IN  SubSeq(sequence, 1, r - 1) \o SubSeq(sequence, r + 1, Len(sequence))]

\* The tuples yielded, in order: the i-th lacks element i of the sequence.
remove_one_iter(sequence) ==
    [i \in 1..Len(sequence) |->
        SubSeq(sequence, 1, i - 1) \o SubSeq(sequence, i + 1, Len(sequence))]

(***************************************************************************)
(* builder.py: Builder and BoxBuilder.  A builder is a record of its three *)
(* dictionaries; an operation returns the builder it leaves behind, the    *)
(* exception it raised ("none" when it returned) and the value returned.   *)
(***************************************************************************)
NewBuilder == [sorted_simplices |-> EmptyDict, simplices |-> EmptyDict,
               boundary |-> EmptyDict]

Returned(b, value) == [b |-> b, err |-> "none", ret |-> value]
Raised(b, exception) == [b |-> b, err |-> exception, ret |-> <<>>]

\* BoxBuilder.points
points(sl) == cartesian_product([i \in 1..Len(sl) |-> 0..sl[i]])

\* self.simplices is a defaultdict(set).  The value of self.simplices[dim]:
\* a missing key reads as the empty set ...
simplices_at(table, dim) == IF dim \in DOMAIN table THEN table[dim] ELSE {}

\* ... and the read inserts a missing key, with the empty set: the builder
\* after it has read self.simplices[dim] for every dim of dims
builder_read(b, dims) ==
    [b EXCEPT !.simplices =
        [dim \in (DOMAIN b.simplices) \cup dims |-> simplices_at(b.simplices, dim)]]

\* A plausible slip: no comparison with the recorded order, every order is
\* accepted and the first one stays recorded.
_make_simplex_unchecked(b, vertices) ==
    LET sorted_simplex == sorted(vertices)
    IN  IF sorted_simplex \notin DOMAIN b.sorted_simplices
        THEN Returned([b EXCEPT !.sorted_simplices =
                           dict_set(@, sorted_simplex, vertices)], vertices)
        ELSE Returned(b, vertices)

\* A plausible slip: a key that is registered is refused whatever the order.
_make_simplex_once(b, vertices) ==
    LET sorted_simplex == sorted(vertices)
    IN  IF sorted_simplex \notin DOMAIN b.sorted_simplices
        THEN Returned([b EXCEPT !.sorted_simplices =
                           dict_set(@, sorted_simplex, vertices)], vertices)
        ELSE Raised(b, "VertexOrderError")

\* A plausible slip: the last order given is the one recorded.
_make_simplex_last_wins(b, vertices) ==
    Returned([b EXCEPT !.sorted_simplices = dict_set(@, sorted(vertices), vertices)],
             vertices)

\* Builder._make_simplex
_make_simplex(b, vertices) ==
    LET sorted_simplex == sorted(vertices)
    IN  IF sorted_simplex \notin DOMAIN b.sorted_simplices
        THEN Returned([b EXCEPT !.sorted_simplices =
                           dict_set(@, sorted_simplex, vertices)], vertices)
        ELSE IF b.sorted_simplices[sorted_simplex] # vertices
             THEN Raised(b, "VertexOrderError")
             ELSE Returned(b, vertices)

\* A plausible slip: the simplex is filed one dimension too low.
table_add_low(table, dim, simplex) ==
    dict_set(table, dim - 1, simplices_at(table, dim - 1) \cup {simplex})

\* d_simplices = self.simplices[dim]; d_simplices.add(simplex)
table_add(table, dim, simplex) ==
    dict_set(table, dim, simplices_at(table, dim) \cup {simplex})

RECURSIVE add_simplex(_, _, _)
RECURSIVE simplex_boundary(_, _, _, _)

\* The loop of add_simplex over remove_one_iter(simplex): each face is added
\* in turn, and the first exception ends the loop.
simplex_boundary(b, sl, faces, done) ==
    IF faces = <<>> THEN Returned(b, done)
    ELSE Bind(add_simplex(b, sl, Head(faces)), LAMBDA r :
             IF r.err # "none" THEN Raised(r.b, r.err)
             ELSE simplex_boundary(r.b, sl, Tail(faces), Append(done, r.ret)))

\* BoxBuilder.add_simplex
add_simplex(b, sl, vertices) ==
    Bind(_make_simplex(b, vertices), LAMBDA m :
        IF m.err # "none" THEN m
        ELSE IF ~ (\A i \in 1..Len(m.ret) : m.ret[i] \in points(sl))
        THEN Raised(m.b, "AssertionError")
        ELSE LET simplex == m.ret
                 dim == Len(simplex)
             IN  Bind(simplex_boundary(
                          [m.b EXCEPT !.simplices = table_add(@, dim, simplex)],
                          sl, remove_one_iter(simplex), <<>>),
                      LAMBDA f :
                          IF f.err # "none" THEN Raised(f.b, f.err)
                          ELSE Returned([f.b EXCEPT !.boundary =
                                             dict_set(@, simplex, f.ret)], simplex)))

(***************************************************************************)
(* translate_point.py and the group generators.  A generator is a callable *)
(* from points to points that the caller supplies; the model draws them    *)
(* from the maps below, named by a string.                                 *)
(***************************************************************************)
\* TranslatePoint(coordinate_index, amount).__call__, the index 1-based here
translate_point(i, amount, point) ==
    [point EXCEPT ![i] = @ + amount]

\* gen(point) for the generators of the model
apply_gen(gen, point) ==
    CASE gen = "translate" -> translate_point(1, 1, point)
      [] gen = "negate"    -> [c \in 1..Len(point) |-> 0 - point[c]]
      [] gen = "swap"      -> [c \in 1..Len(point) |-> point[Len(point) + 1 - c]]
      [] OTHER             -> point

\* map(f, simplex)
map_gen(gen, simplex) == [k \in 1..Len(simplex) |-> apply_gen(gen, simplex[k])]
map_translate(i, amount, simplex) ==
    [k \in 1..Len(simplex) |-> translate_point(i, amount, simplex[k])]

Min(S) == CHOOSE x \in S : \A y \in S : x <= y

(***************************************************************************)
(* builder.py: TorusQuotientBuilder, and edge_accumulator.py:              *)
(* GroupBoxEdgeBuilder.  cls names the class of the builder: the two       *)
(* differ in orbit, which in GroupBoxEdgeBuilder adds the torus images.    *)
(***************************************************************************)
\* A plausible slip: the quotient is rounded towards zero, as the division
\* of C does, where Python's // rounds down.
RECURSIVE fundamental_region_truncating(_, _, _)
fundamental_region_truncating(vertices, sl, i) ==
    IF i > Len(sl) THEN vertices
    ELSE LET r == sl[i]
             m == Min({vertices[k][i] : k \in 1..Len(vertices)})
             d == IF m < 0 THEN 0 - ((0 - m) \div r) ELSE m \div r
             amount == 0 - (d * r)
         IN  fundamental_region_truncating(
                 IF amount # 0 THEN map_translate(i, amount, vertices) ELSE vertices,
                 sl, i + 1)

\* The loop of _make_fundamental_region_simplex over the axes i, i+1, ...
RECURSIVE fundamental_region(_, _, _)
fundamental_region(vertices, sl, i) ==
    IF i > Len(sl) THEN vertices
    ELSE LET r == sl[i]
             d == Min({vertices[k][i] : k \in 1..Len(vertices)}) \div r
             amount == 0 - (d * r)
         IN  fundamental_region(
                 IF amount # 0 THEN map_translate(i, amount, vertices) ELSE vertices,
                 sl, i + 1)

\* _make_fundamental_region_simplex
_make_fundamental_region_simplex(b, sl, vertices) ==
    IF Len(vertices) = 0 THEN _make_simplex(b, <<>>)
    ELSE _make_simplex(b, fundamental_region(vertices, sl, 1))

\* [self._make_simplex(*s) for s in todo], after the simplices of done
RECURSIVE make_simplices(_, _, _)
make_simplices(b, todo, done) ==
    IF todo = <<>> THEN Returned(b, done)
    ELSE Bind(_make_simplex(b, Head(todo)), LAMBDA m :
             IF m.err # "none" THEN m
             ELSE make_simplices(m.b, Tail(todo), Append(done, m.ret)))

\* The loop of _make_torus_images over the axes i, i+1, ...
RECURSIVE torus_images_loop(_, _, _, _, _)
torus_images_loop(b, sl, vertices, i, images) ==
    IF i > Len(sl) THEN Returned(b, images)
    ELSE IF \A k \in 1..Len(vertices) : vertices[k][i] = 0
         THEN Bind(make_simplices(b, [n \in 1..Len(images) |->
                                         map_translate(i, sl[i], images[n])],
                                  images),
                   LAMBDA m :
                       IF m.err # "none" THEN m
                       ELSE torus_images_loop(m.b, sl, vertices, i + 1, m.ret))
         ELSE torus_images_loop(b, sl, vertices, i + 1, images)

\* GroupBoxEdgeBuilder._make_torus_images
_make_torus_images(b, sl, vertices) ==
    Bind(_make_simplex(b, vertices), LAMBDA m :
        IF m.err # "none" THEN m
        ELSE torus_images_loop(m.b, sl, vertices, 1, <<m.ret>>))

\* The simplices that orbit adds to its set with a new simplex: the simplex,
\* and in GroupBoxEdgeBuilder its torus images.
orbit_members(b, cls, sl, simplex) ==
    IF cls = "GroupBoxEdgeBuilder"
    THEN Bind(_make_torus_images(b, sl, simplex), LAMBDA m :
             IF m.err # "none" THEN m ELSE Returned(m.b, Range(m.ret) \cup {simplex}))
    ELSE Returned(b, {simplex})

\* The state of orbit's loop: the builder, the exception raised if any, and
\* the sets orbit and todo.
OrbitState(b, err, orbit, todo) == [b |-> b, err |-> err, orbit |-> orbit, todo |-> todo]

\* orbit up to its loop: the start simplex, canonicalized
orbit_start(b, cls, sl, vertices) ==
    Bind(_make_fundamental_region_simplex(b, sl, vertices), LAMBDA f :
        IF f.err # "none" THEN OrbitState(f.b, f.err, {}, {})
        ELSE Bind(orbit_members(f.b, cls, sl, f.ret), LAMBDA m :
                 IF m.err # "none" THEN OrbitState(m.b, m.err, {}, {})
                 ELSE OrbitState(m.b, "none", m.ret, {f.ret})))

\* A plausible slip: a new image is added to the orbit and never to todo, so
\* that its own images are not computed.
RECURSIVE orbit_gens_shallow(_, _, _, _, _)
orbit_gens_shallow(o, cls, sl, gens, simplex) ==
    IF gens = <<>> \/ o.err # "none" THEN o
    ELSE Bind(_make_fundamental_region_simplex(o.b, sl, map_gen(Head(gens), simplex)),
              LAMBDA f :
         IF f.err # "none" THEN OrbitState(f.b, f.err, o.orbit, o.todo)
         ELSE IF f.ret \in o.orbit
              THEN orbit_gens_shallow(OrbitState(f.b, "none", o.orbit, o.todo),
                      cls, sl, Tail(gens), simplex)
              ELSE Bind(orbit_members(f.b, cls, sl, f.ret), LAMBDA m :
                       IF m.err # "none"
                       THEN OrbitState(m.b, m.err, o.orbit \cup {f.ret}, o.todo)
                       ELSE orbit_gens_shallow(OrbitState(m.b, "none", o.orbit \cup m.ret, o.todo),
                               cls, sl, Tail(gens), simplex)))

\* The loop of orbit over the generators, for the simplex popped from todo
RECURSIVE orbit_gens(_, _, _, _, _)
orbit_gens(o, cls, sl, gens, simplex) ==
    IF gens = <<>> \/ o.err # "none" THEN o
    ELSE Bind(_make_fundamental_region_simplex(o.b, sl, map_gen(Head(gens), simplex)),
              LAMBDA f :
         IF f.err # "none" THEN OrbitState(f.b, f.err, o.orbit, o.todo)
         ELSE IF f.ret \in o.orbit
              THEN orbit_gens(OrbitState(f.b, "none", o.orbit, o.todo),
                      cls, sl, Tail(gens), simplex)
              ELSE Bind(orbit_members(f.b, cls, sl, f.ret), LAMBDA m :
                       IF m.err # "none"
                       THEN OrbitState(m.b, m.err, o.orbit \cup {f.ret}, o.todo)
                       ELSE orbit_gens(OrbitState(m.b, "none", o.orbit \cup m.ret, o.todo \cup {f.ret}),
                               cls, sl, Tail(gens), simplex)))

\* A plausible slip: the simplex taken from todo is read and left in todo.
orbit_turn_peeking(o, cls, sl, gens, simplex) ==
    orbit_gens(o, cls, sl, gens, simplex)

\* One turn of orbit's while loop with simplex the element popped from todo
orbit_turn(o, cls, sl, gens, simplex) ==
    Bind([o EXCEPT !.todo = @ \ {simplex}], LAMBDA popped :
        orbit_gens(popped, cls, sl, gens, simplex))

\* Whether orbit's while loop is over in the state o of the loop
orbit_over(o) == o.err # "none" \/ o.todo = {}

\* orbit's while loop, run to its end with todo.pop() taking the elements in
\* one of the orders
RECURSIVE orbit_loop_run(_, _, _, _)
orbit_loop_run(o, cls, sl, gens) ==
    IF orbit_over(o) THEN o
    ELSE Bind(orbit_turn(o, cls, sl, gens, CHOOSE s \in o.todo : TRUE),
              LAMBDA turned : orbit_loop_run(turned, cls, sl, gens))

\* The states in which the loop can end from the states running, with
\* todo.pop() taking any element in every turn
RECURSIVE orbit_loop_any(_, _, _, _)
orbit_loop_any(running, cls, sl, gens) ==
    IF \A o \in running : orbit_over(o) THEN running
    ELSE Bind({o \in running : orbit_over(o)}
                  \cup UNION {{orbit_turn(o, cls, sl, gens, s) : s \in o.todo} :
                                 o \in {x \in running : ~ orbit_over(x)}},
              LAMBDA turned : orbit_loop_any(turned, cls, sl, gens))

\* orbit's while loop: the set of the states it can end in.  todo.pop()
\* takes an arbitrary element.  A run that ends without an exception has
\* popped every simplex of the orbit and registered the images of each, the
\* same in every order, and no order meets a conflict: it is the only
\* outcome.  A run that raises has registered what it came to before the
\* conflict, which depends on the order: every order is followed.
orbit_loop(o, cls, sl, gens) ==
    Bind(orbit_loop_run(o, cls, sl, gens), LAMBDA run :
        IF run.err = "none" THEN {run}
        ELSE orbit_loop_any({o}, cls, sl, gens))

\* orbit: the set of its possible outcomes.  The tuple returned is given as
\* the set of its elements.
orbit(b, cls, sl, gens, vertices) ==
    Bind(orbit_start(b, cls, sl, vertices), LAMBDA started :
        {IF o.err # "none" THEN Raised(o.b, o.err) ELSE Returned(o.b, o.orbit) :
            o \in orbit_loop(started, cls, sl, gens)})

\* The loop of add_simplex_orbit over the simplices of the orbit, in the
\* order given
RECURSIVE add_simplices(_, _, _)
add_simplices(b, sl, todo) ==
    IF todo = <<>> THEN Returned(b, <<>>)
    ELSE Bind(add_simplex(b, sl, Head(todo)), LAMBDA r :
             IF r.err # "none" THEN Raised(r.b, r.err)
             ELSE add_simplices(r.b, sl, Tail(todo)))

\* The elements of a set in one of their orders
RECURSIVE one_order(_)
one_order(S) ==
    IF S = {} THEN <<>>
    ELSE Bind(CHOOSE y \in S : TRUE, LAMBDA x :
             Bind(S \ {x}, LAMBDA rest : <<x>> \o one_order(rest)))

\* tuple(S) of a set, and any other iteration over a set: the order is that
\* of the hash table, any of the orders of the elements
tuple_of(S) == {t \in InjectiveTuples(S) : Len(t) = Cardinality(S)}

\* The loop of add_simplex_orbit from the points it can be at (the builder
\* and the simplices still to come), the next simplex being any of these;
\* ended holds the outcomes of the runs that are over.
RECURSIVE add_simplices_any(_, _, _)
add_simplices_any(running, sl, ended) ==
    IF running = {} THEN ended
    ELSE Bind(UNION {{[r |-> add_simplex(at.b, sl, simplex),
                       todo |-> at.todo \ {simplex}] : simplex \in at.todo} :
                        at \in running},
              LAMBDA steps :
                  add_simplices_any(
                      {[b |-> s.r.b, todo |-> s.todo] :
                          s \in {x \in steps : x.r.err = "none" /\ x.todo # {}}},
                      sl,
                      ended
                        \cup {Returned(s.r.b, <<>>) :
                                 s \in {x \in steps : x.r.err = "none" /\ x.todo = {}}}
                        \cup {Raised(s.r.b, s.r.err) :
                                 s \in {x \in steps : x.r.err # "none"}}))

\* for simplex in orbit: self.add_simplex(*simplex), the set of its
\* possible outcomes.  When the insertions all return in one order, they
\* return in every order and leave the same builder (the entries of the
\* simplices and of their faces; a conflict between two of them is met in
\* either order): it is the only outcome.  Otherwise the builder left at the
\* raise, and the exception when two insertions fail in different ways,
\* depend on the order: every order is followed.
add_simplices_in_any_order(b, sl, orbit_set) ==
    Bind(add_simplices(b, sl, one_order(orbit_set)), LAMBDA run :
        IF run.err = "none" THEN {run}
        ELSE add_simplices_any({[b |-> b, todo |-> orbit_set]}, sl, {}))

\* add_simplex_orbit: the set of its possible outcomes
add_simplex_orbit(b, cls, sl, gens, vertices) ==
    UNION {IF o.err # "none" THEN {o}
           ELSE add_simplices_in_any_order(o.b, sl, o.ret) :
               o \in orbit(b, cls, sl, gens, vertices)}

(***************************************************************************)
(* cube_triangulation.py                                                   *)
(***************************************************************************)
\* Permutations(dimension): the permutations of 1..dimension, as tuples
sage_Permutations(dimension) ==
    {p \in InjectiveTuples(1..dimension) : Len(p) = dimension}

\* The simplex that UnitCubeTriangulation.simplex_iter yields for the
\* permutation p: vertex i (0-based) has a 0 at the places p[i:] and a 1
\* elsewhere.
unit_simplex(p, dimension) ==
    [i \in 1..(dimension + 1) |->
        [c \in 1..dimension |->
            IF \E k \in i..dimension : p[k] = c THEN 0 ELSE 1]]

\* UnitCubeTriangulation.points: the corners of the unit cube, sorted
unit_points(dimension) ==
    sorted(one_order(cartesian_product([i \in 1..dimension |-> {0, 1}])))

\* CubeTriangulation.points: the corners of the cube spanned by the
\* vertices, sorted
cube_points(vertices) ==
    LET dimension == Len(vertices[1])
        coordinates(i) == {vertices[k][i] : k \in 1..Len(vertices)}
        extremes(S) == {Min(S), CHOOSE x \in S : \A y \in S : y <= x}
    IN  Bind([i \in 1..dimension |-> Bind(coordinates(i), extremes)],
             LAMBDA ranges : sorted(one_order(cartesian_product(ranges))))

index_of(seq, x) == CHOOSE k \in 1..Len(seq) : seq[k] = x

\* list.sort(key=...) for the key "place in ordered_vertices"
RECURSIVE insert_by_key(_, _, _)
insert_by_key(x, seq, ordered_vertices) ==
    IF seq = <<>> THEN <<x>>
    ELSE IF index_of(ordered_vertices, x) < index_of(ordered_vertices, Head(seq))
         THEN <<x>> \o seq
         ELSE <<Head(seq)>> \o insert_by_key(x, Tail(seq), ordered_vertices)

RECURSIVE sort_by_key(_, _)
sort_by_key(seq, ordered_vertices) ==
    IF seq = <<>> THEN <<>>
    ELSE Bind(sort_by_key(Tail(seq), ordered_vertices),
              LAMBDA rest : insert_by_key(Head(seq), rest, ordered_vertices))

\* The set of simplices CubeTriangulation(*ordered_vertices).simplex_iter
\* yields.
cube_simplices(ordered_vertices) ==
    LET dimension == Len(ordered_vertices[1])
    IN  Bind(unit_points(dimension), LAMBDA unit :
        Bind(cube_points(ordered_vertices), LAMBDA corners :
            LET unit_vertex_map(v) == corners[index_of(unit, v)]
            IN  {Bind([i \in 1..(dimension + 1) |->
                          unit_vertex_map(unit_simplex(p, dimension)[i])],
                      LAMBDA simplex : sort_by_key(simplex, ordered_vertices))
                 : p \in sage_Permutations(dimension)}))

(***************************************************************************)
(* edge_accumulator.py: EdgeBuilder.edge_graph, and the DiGraph of the     *)
(* graph library: a set V of vertices and a set E of pairs (tail, head).   *)
(***************************************************************************)
\* edge_graph: the graph returned.  It reads self.simplices[1] and
\* self.simplices[2], which leaves the builder as builder_read(b, {1, 2}).
edge_graph(b) ==
    LET edges == {<<s[1], s[2]>> : s \in simplices_at(b.simplices, 2)}
    IN  [V |-> {s[1] : s \in simplices_at(b.simplices, 1)}
                 \cup {e[1] : e \in edges} \cup {e[2] : e \in edges},
         E |-> edges]

\* DiGraph.subgraph(vertices)
subgraph(g, vertices) ==
    [V |-> g.V \cap vertices,
     E |-> {e \in g.E : e[1] \in vertices /\ e[2] \in vertices}]

\* DiGraph.add_edge(v0, v1)
graph_add_edge(g, v0, v1) == [V |-> g.V \cup {v0, v1}, E |-> g.E \cup {<<v0, v1>>}]

\* DiGraph.is_directed_acyclic: vertices without an incoming edge are
\* removed until none is left or none can be removed.
RECURSIVE is_directed_acyclic(_)
is_directed_acyclic(g) ==
    IF g.V = {} THEN TRUE
    ELSE Bind({v \in g.V : ~ \E e \in g.E : e[2] = v}, LAMBDA sources :
             IF sources = {} THEN FALSE
             ELSE Bind(subgraph(g, g.V \ sources), is_directed_acyclic))

(***************************************************************************)
(* cube_filter.py and triangulation_edge_finder.py                         *)
(***************************************************************************)
\* CubeFilter(*([[0, 1]] * dimension)).contains
unit_filter_contains(vertex) == \A i \in 1..Len(vertex) : vertex[i] \in {0, 1}

\* TriangulationEdgeFinder.__init__: the finder of a builder.  self.builder
\* is the builder given, the same object, which builder.edge_graph() has
\* read.
TriangulationEdgeFinder(b) ==
    Bind(edge_graph(b), LAMBDA g :
        [builder |-> builder_read(b, {1, 2}),
         unit_graph |-> subgraph(g, {v \in g.V : unit_filter_contains(v)})])

\* A plausible slip: only the edges between consecutive vertices of a
\* simplex are taken, which leaves out the diagonals.
unit_edges_consecutive(dimension) ==
    UNION {{<<simplex[i], simplex[i + 1]>> : i \in 1..(Len(simplex) - 1)}
           : simplex \in cube_simplices(unit_points(dimension))}

\* unit_edges
unit_edges(dimension) ==
    UNION {{<<simplex[ij[1]], simplex[ij[2]]>> :
                ij \in {x \in (1..Len(simplex)) \X (1..Len(simplex)) : x[1] < x[2]}}
           : simplex \in Bind(unit_points(dimension), cube_simplices)}

\* triangulation_edges
triangulation_edges(finder, dimension) ==
    unit_edges(dimension) \
        ({<<e[1], e[2]>> : e \in finder.unit_graph.E}
         \cup {<<e[2], e[1]>> : e \in finder.unit_graph.E})

\* A plausible slip: the recursive call is made on self instead of on the
\* finder of the copy that holds the new edge.
try_orientation_on_self(finder, sl, gens, v0, v1) ==
    IF ~ Bind(graph_add_edge(finder.unit_graph, v0, v1), is_directed_acyclic)
    THEN {[outcome |-> "cyclic", finder |-> finder, touched |-> finder.builder]}
    ELSE {IF r.err # "none"
          THEN [outcome |-> r.err, finder |-> finder, touched |-> r.b]
          ELSE [outcome |-> "none", finder |-> finder, touched |-> r.b] :
              r \in add_simplex_orbit(finder.builder, "GroupBoxEdgeBuilder", sl,
                                      gens, <<v0, v1>>)}

\* The finder of the copy of the builder that a method or a trial worked
\* on, and the copy, which the new finder has read
trial_passed(b) ==
    Bind(TriangulationEdgeFinder(b), LAMBDA new :
        [outcome |-> "none", finder |-> new, touched |-> new.builder])

\* One of the two trials of edge_orientations_iter, for the orientation
\* (v0, v1), as the set of its possible outcomes: "cyclic" when the edge
\* closes a cycle in the unit graph, else the outcome of add_simplex_orbit
\* on a copy of the builder, and with "none" the finder of that copy.
\* touched is the copy as the trial left it.
try_orientation(finder, sl, gens, v0, v1) ==
    IF ~ Bind(graph_add_edge(finder.unit_graph, v0, v1), is_directed_acyclic)
    THEN {[outcome |-> "cyclic", finder |-> finder, touched |-> finder.builder]}
    ELSE {IF r.err # "none"
          THEN [outcome |-> r.err, finder |-> finder, touched |-> r.b]
          ELSE trial_passed(r.b) :
              r \in add_simplex_orbit(finder.builder, "GroupBoxEdgeBuilder", sl,
                                      gens, <<v0, v1>>)}

\* add_simplex_orbit of the oriented edges of todo on one builder, one
\* after another, up to the first that raises: the set of the possible
\* outcomes
RECURSIVE add_edge_orbits(_, _, _, _)
add_edge_orbits(b, sl, gens, todo) ==
    IF todo = <<>> THEN {Returned(b, <<>>)}
    ELSE UNION {IF r.err # "none" THEN {r}
                ELSE add_edge_orbits(r.b, sl, gens, Tail(todo)) :
                    r \in add_simplex_orbit(b, "GroupBoxEdgeBuilder", sl, gens,
                                            Head(todo))}

\* A loop over a set of edges that inserts the orbit of each: the edges come
\* in any order.  As in add_simplex_orbit, insertions that all return in one
\* order return in every order and leave the same builder; otherwise every
\* order is followed.
add_edge_orbits_in_any_order(b, sl, gens, edges) ==
    Bind(add_edge_orbits(b, sl, gens, one_order(edges)), LAMBDA runs :
        IF \A r \in runs : r.err = "none" THEN runs
        ELSE UNION {add_edge_orbits(b, sl, gens, todo) : todo \in tuple_of(edges)})

\* fit_01 of obvious_edge_iter for the orientation (v0, v1): its orbit goes
\* into a copy of the builder and the edge graph of the copy is acyclic.
\* (Whether add_simplex_orbit returns is the same in every order.)
fit(finder, sl, gens, v0, v1) ==
    Bind(add_simplex_orbit(finder.builder, "GroupBoxEdgeBuilder", sl, gens,
                           <<v0, v1>>),
         LAMBDA outcomes :
             \A r \in outcomes :
                 r.err = "none" /\ is_directed_acyclic(edge_graph(r.b)))

\* What obvious_edge_iter yields for one edge: the orientation that fits
\* when the other does not
obvious_edge(finder, sl, gens, edge) ==
    Bind(fit(finder, sl, gens, edge[1], edge[2]), LAMBDA fit_01 :
        Bind(fit(finder, sl, gens, edge[2], edge[1]), LAMBDA fit_10 :
            IF fit_01 /\ ~ fit_10 THEN {edge}
            ELSE IF fit_10 /\ ~ fit_01 THEN {<<edge[2], edge[1]>>}
            ELSE {}))

\* obvious_edge_iter: the oriented edges it yields, as a set
obvious_edge_iter(finder, sl, gens) ==
    UNION {obvious_edge(finder, sl, gens, edge) :
              edge \in triangulation_edges(finder, Len(sl))}

\* The edges that with_all_edges_to_origin inserts: the triangulation edges
\* with the origin as an end, turned to end there
edges_to_origin(finder, dimension) ==
    LET origin == [c \in 1..dimension |-> 0]
    IN  {IF edge[1] = origin THEN <<edge[2], origin>> ELSE edge :
            edge \in {e \in triangulation_edges(finder, dimension) :
                         e[1] = origin \/ e[2] = origin}}

(***************************************************************************)
(* The builder as a state machine: a box is constructed, then add_simplex  *)
(* is called with any tuple of distinct points of the box.                 *)
(***************************************************************************)
Builder == [sorted_simplices |-> sorted_simplices, simplices |-> simplices,
            boundary |-> boundary]

\* No quotient has been computed, no call of orbit is running
NoCells == [simplices |-> EmptyDict, boundary |-> EmptyDict]
NoOrbit == [vertices |-> <<>>, err |-> "none", orbit |-> {}, todo |-> {}]

Init ==
    /\ side_length = <<2>>
    /\ group_gens = <<>>
    /\ sorted_simplices = EmptyDict
    /\ simplices = EmptyDict
    /\ boundary = EmptyDict
    /\ calls = <<>>
    /\ pc = "build"
    /\ stack = <<>>
    /\ yielded = EmptyDict
    /\ builder_class = "BoxBuilder"
    /\ class_map = EmptyDict
    /\ cells = NoCells
    /\ heap = EmptyDict
    /\ orbit_state = NoOrbit
    /\ pool = {}

AddSimplex ==
    /\ Len(calls) < MaxCalls
    /\ \E vertices \in InjectiveTuples(points(side_length)) :
         LET r == add_simplex(Builder, side_length, vertices)
         IN  /\ sorted_simplices' = r.b.sorted_simplices
             /\ simplices' = r.b.simplices
             /\ boundary' = r.b.boundary
             /\ calls' = Append(calls, [vertices |-> vertices, err |-> r.err,
                                        ret |-> r.ret])
    /\ UNCHANGED <<builder_class, class_map, cells, heap, orbit_state>>
    /\ UNCHANGED <<side_length, group_gens, pc, stack, yielded, pool>>

Next == AddSimplex

Spec == Init /\ [][Next]_vars

(***************************************************************************)
(* The search as a state machine.  A GroupBoxEdgeBuilder is constructed    *)
(* and edges between corners of the unit cube are added to it, each alone  *)
(* (add_simplex) or with its orbit (add_simplex_orbit), by a client that   *)
(* catches what these raise and goes on with the builder as the call left  *)
(* it; then edge_orientations_iter of its finder is run to its end by a    *)
(* consumer that takes every state.  A frame of the stack is one active    *)
(* call of the generator: its finder, the edge it picked, and the place it *)
(* is at ("enter", "first" and "second" before the trial of that           *)
(* orientation, "exit" after both, "yield" while it is suspended at        *)
(* `yield self` and the consumer holds the finder).                        *)
(***************************************************************************)
Dimension == Len(side_length)

\* The ordered pairs of distinct corners of the unit cube
UnitPairs(dimension) ==
    {e \in Range(unit_points(dimension)) \X Range(unit_points(dimension)) : e[1] # e[2]}

\* The boxes and generator lists of the search runs
InitSearch ==
    /\ \E c \in
            {[side_length |-> <<1, 1>>, group_gens |-> <<>>],
             [side_length |-> <<1, 1>>, group_gens |-> <<"swap">>],
             [side_length |-> <<2, 1>>, group_gens |-> <<"translate">>]} :
         /\ side_length = c.side_length
         /\ group_gens = c.group_gens
    /\ sorted_simplices = EmptyDict
    /\ simplices = EmptyDict
    /\ boundary = EmptyDict
    /\ calls = <<>>
    /\ pc = "build"
    /\ stack = <<>>
    /\ yielded = EmptyDict
    /\ builder_class = "GroupBoxEdgeBuilder"
    /\ class_map = EmptyDict
    /\ cells = NoCells
    /\ heap = EmptyDict
    /\ orbit_state = NoOrbit
    /\ pool = {}

SetBuilder(b) ==
    /\ sorted_simplices' = b.sorted_simplices
    /\ simplices' = b.simplices
    /\ boundary' = b.boundary

\* builder.add_simplex(v0, v1) of the client, returning or raising: the
\* builder is left as the call left it
BuildAddSimplex ==
    /\ pc = "build"
    /\ \E e \in UnitPairs(Dimension) :
         \E r \in {add_simplex(Builder, side_length, <<e[1], e[2]>>)} :
             SetBuilder(r.b)
    /\ UNCHANGED <<builder_class, class_map, cells, heap, orbit_state>>
    /\ UNCHANGED <<side_length, group_gens, calls, pc, stack, yielded, pool>>

\* builder.add_simplex_orbit(v0, v1) of the client, returning or raising:
\* the builder is left as the call left it, with what orbit registered and
\* add_simplex inserted before the raise
BuildAddSimplexOrbit ==
    /\ pc = "build"
    /\ \E e \in UnitPairs(Dimension) :
         \E r \in add_simplex_orbit(Builder, "GroupBoxEdgeBuilder", side_length,
                                    group_gens, <<e[1], e[2]>>) :
             SetBuilder(r.b)
    /\ UNCHANGED <<builder_class, class_map, cells, heap, orbit_state>>
    /\ UNCHANGED <<side_length, group_gens, calls, pc, stack, yielded, pool>>

Frame(finder, edge, stage) == [finder |-> finder, edge |-> edge, stage |-> stage]

\* TriangulationEdgeFinder(builder).edge_orientations_iter() is called.
\* The finder holds the builder of the client, which its constructor reads.
StartSearch ==
    /\ pc = "build"
    /\ pc' = "search"
    /\ \E finder \in {TriangulationEdgeFinder(Builder)} :
         /\ stack' = <<Frame(finder, <<>>, "enter")>>
         /\ SetBuilder(finder.builder)
    /\ UNCHANGED <<builder_class, class_map, cells, heap, orbit_state>>
    /\ UNCHANGED <<side_length, group_gens, calls, yielded, pool>>

Top == stack[Len(stack)]
ReplaceTop(frame) == [stack EXCEPT ![Len(stack)] = frame]
\* The innermost call ends; control is back in its caller, or in the
\* consumer when it was the outermost call.
PopFrame ==
    /\ stack' = SubSeq(stack, 1, Len(stack) - 1)
    /\ pc' = IF Len(stack) = 1 THEN "done" ELSE "search"

\* yielded, with one more yield of finder
yield_add(y, finder) ==
    dict_set(y, finder, IF finder \in DOMAIN y THEN y[finder] + 1 ELSE 1)

\* No edge is left: `yield self`.  The consumer has the finder, and the
\* call, with all its callers, is suspended at its yield.
Yield ==
    /\ pc = "search"
    /\ Top.stage = "enter"
    /\ triangulation_edges(Top.finder, Dimension) = {}
    /\ yielded' = yield_add(yielded, Top.finder)
    /\ stack' = ReplaceTop(Frame(Top.finder, Top.edge, "yield"))
    /\ UNCHANGED <<pc, pool>>
    /\ UNCHANGED <<builder_class, class_map, cells, heap, orbit_state>>
    /\ UNCHANGED <<side_length, group_gens, sorted_simplices, simplices, boundary, calls>>

\* The consumer asks for the next finder: the call that yielded goes on
\* after its yield, to `return`.
Resume ==
    /\ pc = "search"
    /\ Top.stage = "yield"
    /\ PopFrame
    /\ UNCHANGED <<builder_class, class_map, cells, heap, orbit_state>>
    /\ UNCHANGED <<side_length, group_gens, sorted_simplices, simplices, boundary,
                   calls, yielded, pool>>

\* next(iter(self.triangulation_edges())): any of the edges left
Pick ==
    /\ pc = "search"
    /\ Top.stage = "enter"
    /\ \E e \in triangulation_edges(Top.finder, Dimension) :
         stack' = ReplaceTop(Frame(Top.finder, e, "first"))
    /\ UNCHANGED <<builder_class, class_map, cells, heap, orbit_state>>
    /\ UNCHANGED <<side_length, group_gens, sorted_simplices, simplices, boundary,
                   calls, pc, yielded, pool>>

\* A plausible slip: the second trial repeats the orientation of the first
\* (the set of its possible outcomes)
Trial_same_direction ==
    try_orientation(Top.finder, side_length, group_gens, Top.edge[1], Top.edge[2])

\* The trial the generator is at: the picked edge as picked, then reversed
\* (the set of its possible outcomes)
Trial ==
    IF Top.stage = "first"
    THEN try_orientation(Top.finder, side_length, group_gens, Top.edge[1], Top.edge[2])
    ELSE try_orientation(Top.finder, side_length, group_gens, Top.edge[2], Top.edge[1])

\* A search that tries the first orientation of the picked edge only
NextStage_first_only == "exit"

\* Where the generator goes on after a trial: the second orientation after
\* the first, the end of the function after the second
NextStage == IF Top.stage = "first" THEN "second" ELSE "exit"

\* The orientation fits: the generator calls itself on the new finder.
Descend ==
    /\ pc = "search"
    /\ Top.stage \in {"first", "second"}
    /\ \E trial \in Trial :
         /\ trial.outcome = "none"
         /\ stack' = Append(ReplaceTop(Frame(Top.finder, Top.edge, NextStage)),
                            Frame(trial.finder, <<>>, "enter"))
    /\ UNCHANGED <<builder_class, class_map, cells, heap, orbit_state>>
    /\ UNCHANGED <<side_length, group_gens, sorted_simplices, simplices, boundary,
                   calls, pc, yielded, pool>>

\* A generator without the try statement around the insertion
except_nothing(err) == FALSE

\* except VertexOrderError: pass -- whether the try statement around
\* builder.add_simplex_orbit catches the exception err
except_VertexOrderError(err) == err = "VertexOrderError"

\* The orientation closes a cycle or add_simplex_orbit raises
\* VertexOrderError: it is passed over; an exception that is not caught
\* leaves the generator and all its callers and reaches the consumer.  (The
\* orbit of an edge of the unit cube stays in the box, so that the assertion
\* of add_simplex never fails in a trial.)
Prune ==
    /\ pc = "search"
    /\ Top.stage \in {"first", "second"}
    /\ \E trial \in Trial :
         /\ trial.outcome \in {"cyclic", "VertexOrderError"}
         /\ IF trial.outcome = "cyclic" \/ except_VertexOrderError(trial.outcome)
            THEN /\ stack' = ReplaceTop(Frame(Top.finder, Top.edge, NextStage))
                 /\ pc' = pc
            ELSE /\ stack' = <<>>
                 /\ pc' = "raised"
    /\ UNCHANGED <<builder_class, class_map, cells, heap, orbit_state>>
    /\ UNCHANGED <<side_length, group_gens, sorted_simplices, simplices, boundary,
                   calls, yielded, pool>>

\* Both orientations were tried: the generator returns.
Return ==
    /\ pc = "search"
    /\ Top.stage = "exit"
    /\ PopFrame
    /\ UNCHANGED <<builder_class, class_map, cells, heap, orbit_state>>
    /\ UNCHANGED <<side_length, group_gens, sorted_simplices, simplices, boundary,
                   calls, yielded, pool>>

NextSearch ==
    \/ BuildAddSimplex
    \/ BuildAddSimplexOrbit
    \/ StartSearch
    \/ Yield
    \/ Resume
    \/ Pick
    \/ Descend
    \/ Prune
    \/ Return

SpecSearch == InitSearch /\ [][NextSearch]_vars

\* One step of the running generator.  The consumer iterates it to its end
\* (a for loop, or list()), and the generator itself is sequential code, so
\* that a step that can be taken is taken.
SearchStep == Yield \/ Resume \/ Pick \/ Descend \/ Prune \/ Return


(***************************************************************************)
(* The finder as a state machine, with its builders by reference.  A       *)
(* builder is an object; the client's is reference 0, held in the builder  *)
(* variables, and heap holds the copies that deepcopy made.  A finder is   *)
(* the reference of its builder and its unit_graph.  The client adds edges *)
(* to its builder, up to MaxRegistered of them, and keeps the record of    *)
(* the call in calls, constructs the finder of its builder, and calls the  *)
(* methods of the finder.  While obvious_edge_iter is suspended at a yield *)
(* the client has control, and can add edges to its builder before it asks *)
(* for the next edge; it iterates edge_orientations_iter as in SpecSearch, *)
(* taking every finder.  A frame of the stack is the client (the first     *)
(* frame, with its finder as self) or an active call of a method: its      *)
(* self, its local variable builder (b in obvious_edge_iter), the edges    *)
(* its for loop has not come to (in any order), the edge it is at, and its *)
(* place.  with_edge_added and with_all_edges_to_origin, which nothing can *)
(* interrupt, are one step each.  A builder that nothing refers to any     *)
(* more is dropped from heap.                                              *)
(***************************************************************************)
InitFinder ==
    /\ \E c \in
            {[side_length |-> <<1, 1>>, group_gens |-> <<>>],
             [side_length |-> <<1, 1>>, group_gens |-> <<"swap">>]} :
         /\ side_length = c.side_length
         /\ group_gens = c.group_gens
    /\ sorted_simplices = EmptyDict
    /\ simplices = EmptyDict
    /\ boundary = EmptyDict
    /\ calls = <<>>
    /\ pc = "build"
    /\ stack = <<>>
    /\ yielded = EmptyDict
    /\ builder_class = "GroupBoxEdgeBuilder"
    /\ class_map = EmptyDict
    /\ cells = NoCells
    /\ heap = EmptyDict
    /\ orbit_state = NoOrbit
    /\ pool = {}

\* The builders that exist, by reference
Store == [ref \in {0} \cup DOMAIN heap |-> IF ref = 0 THEN Builder ELSE heap[ref]]

\* A plausible slip: the builder is passed on, not copied
deepcopy_shallow(store, ref) == [store |-> store, ref |-> ref]

\* deepcopy(builder): a new builder, with a reference that no object has,
\* and with the contents of the one at ref
deepcopy(store, ref) ==
    Bind(Min({n \in 1..Cardinality(DOMAIN store) : n \notin DOMAIN store}),
         LAMBDA new :
        [store |-> dict_set(store, new, store[ref]), ref |-> new])

\* No builder: a local variable that is not bound, no finder returned
NoReference == -1
NoFinder == [builder |-> NoReference, unit_graph |-> [V |-> {}, E |-> {}]]

\* The state after a step: the builders of store that the frames or the
\* client (held: the finders it was handed) still refer to
SetStore(store, live) ==
    /\ SetBuilder(store[0])
    /\ heap' = [ref \in (DOMAIN store \cap live) \ {0} |-> store[ref]]

FinderFrame(op, self, local, todo, edge, stage) ==
    [op |-> op, self |-> self, builder |-> local, todo |-> todo, edge |-> edge,
     stage |-> stage]

\* The frame that the generator on top of the stack yields to
Consumer == stack[Len(stack) - 1]

\* obvious_edge_iter, iterated by the client, is suspended at its yield
Suspended ==
    IF pc = "call"
    THEN Top.stage = "yield" /\ stack[2].op = "obvious_edge_iter"
    ELSE FALSE

\* builder.add_simplex(v0, v1) of the client, returning or raising: the
\* builder is left as the call left it
ClientAddSimplex ==
    /\ pc = "build" \/ Suspended
    /\ Cardinality({key \in DOMAIN sorted_simplices : Len(key) = 2}) < MaxRegistered
    /\ \E e \in UnitPairs(Dimension) :
         \E r \in {add_simplex(Builder, side_length, <<e[1], e[2]>>)} :
             /\ SetBuilder(r.b)
             /\ calls' = <<[op |-> "add_simplex", edge |-> e, err |-> r.err,
                           ret |-> NoFinder]>>
    /\ UNCHANGED <<side_length, group_gens, pc, stack, yielded, builder_class,
                   class_map, cells, heap, orbit_state, pool>>

\* builder.add_simplex_orbit(v0, v1) of the client, returning or raising
ClientAddSimplexOrbit ==
    /\ pc = "build" \/ Suspended
    /\ Cardinality({key \in DOMAIN sorted_simplices : Len(key) = 2}) < MaxRegistered
    /\ \E e \in UnitPairs(Dimension) :
         \E r \in add_simplex_orbit(Builder, "GroupBoxEdgeBuilder", side_length,
                                    group_gens, <<e[1], e[2]>>) :
             /\ SetBuilder(r.b)
             /\ calls' = <<[op |-> "add_simplex_orbit", edge |-> e, err |-> r.err,
                           ret |-> NoFinder]>>
    /\ UNCHANGED <<side_length, group_gens, pc, stack, yielded, builder_class,
                   class_map, cells, heap, orbit_state, pool>>

\* finder = TriangulationEdgeFinder(builder) of the client: the finder holds
\* the builder of the client, which its constructor reads
NewFinder ==
    /\ pc = "build"
    /\ \E finder \in {TriangulationEdgeFinder(Builder)} :
         /\ SetBuilder(finder.builder)
         /\ stack' = <<FinderFrame("client",
                                   [builder |-> 0, unit_graph |-> finder.unit_graph],
                                   NoReference, {}, <<>>, "ready")>>
    /\ pc' = "ready"
    /\ calls' = <<>>
    /\ UNCHANGED <<side_length, group_gens, yielded, builder_class,
                   class_map, cells, heap, orbit_state, pool>>

\* return TriangulationEdgeFinder(builder) of a method whose insertions
\* into the builder at ref ended with err: the store it leaves, the finder
\* it returns, and the references the client holds then
method_result(store, ref, err) ==
    IF err # "none" THEN [store |-> store, finder |-> NoFinder, held |-> {}]
    ELSE Bind(TriangulationEdgeFinder(store[ref]), LAMBDA new :
             [store |-> [store EXCEPT ![ref] = new.builder],
              finder |-> [builder |-> ref, unit_graph |-> new.unit_graph],
              held |-> {ref}])

\* The call on top of the stack is over: it has returned ret to the client
\* or raised err, which no caller of it catches
EndCall(op, edge, err, ret) ==
    /\ stack' = <<stack[1]>>
    /\ pc' = "called"
    /\ calls' = <<[op |-> op, edge |-> edge, err |-> err, ret |-> ret]>>

\* finder.with_edge_added(v0, v1)
CallWithEdgeAdded ==
    /\ pc = "ready"
    /\ \E e \in UnitPairs(Dimension) :
         \E copy \in {deepcopy(Store, stack[1].self.builder)} :
           \E r \in add_simplex_orbit(copy.store[copy.ref], "GroupBoxEdgeBuilder",
                                      side_length, group_gens, <<e[1], e[2]>>) :
             \E m \in {method_result([copy.store EXCEPT ![copy.ref] = r.b],
                                     copy.ref, r.err)} :
                 /\ SetStore(m.store, m.held)
                 /\ EndCall("with_edge_added", e, r.err, m.finder)
    /\ UNCHANGED <<side_length, group_gens, yielded, builder_class,
                   class_map, cells, orbit_state, pool>>

\* finder.with_all_edges_to_origin()
CallWithAllEdgesToOrigin ==
    /\ pc = "ready"
    /\ \E copy \in {deepcopy(Store, stack[1].self.builder)} :
         \E r \in add_edge_orbits_in_any_order(copy.store[copy.ref], side_length,
                      group_gens, edges_to_origin(stack[1].self, Dimension)) :
           \E m \in {method_result([copy.store EXCEPT ![copy.ref] = r.b],
                                   copy.ref, r.err)} :
               /\ SetStore(m.store, m.held)
               /\ EndCall("with_all_edges_to_origin", <<>>, r.err, m.finder)
    /\ UNCHANGED <<side_length, group_gens, yielded, builder_class,
                   class_map, cells, orbit_state, pool>>

\* The stack and the store after a step of the call on top: the builders
\* that the frames refer to, and those that the client holds, remain
Commit(frames, store, held) ==
    /\ stack' = frames
    /\ SetStore(store, {frames[i].self.builder : i \in 1..Len(frames)}
                           \cup {frames[i].builder : i \in 1..Len(frames)}
                           \cup held)

\* for edge in finder.obvious_edge_iter() of the client: the generator is
\* made; it runs when the loop asks for the first edge
CallObviousEdgeIter ==
    /\ pc = "ready"
    /\ pc' = "call"
    /\ calls' = <<>>
    /\ stack' = Append(stack, FinderFrame("obvious_edge_iter", stack[1].self, NoReference,
                                          {}, <<>>, "enter"))
    /\ UNCHANGED <<side_length, group_gens, sorted_simplices, simplices, boundary,
                   yielded, builder_class, class_map, cells, heap, orbit_state,
                   pool>>

\* finder.with_obvious_edges_added() up to its for loop: the copy of the
\* builder, and the generator
CallWithObviousEdgesAdded ==
    /\ pc = "ready"
    /\ pc' = "call"
    /\ calls' = <<>>
    /\ \E copy \in {deepcopy(Store, stack[1].self.builder)} :
         Commit(stack \o <<FinderFrame("with_obvious_edges_added", stack[1].self, copy.ref,
                                       {}, <<>>, "loop"),
                           FinderFrame("obvious_edge_iter", stack[1].self, NoReference,
                                       {}, <<>>, "enter")>>,
                copy.store, {})
    /\ UNCHANGED <<side_length, group_gens, yielded, builder_class, class_map,
                   cells, orbit_state, pool>>

\* The edges that the for loop of a call of obvious_edge_iter has not come
\* to: those of self.triangulation_edges() when it has not run yet
obvious_todo(frame) ==
    IF frame.stage = "enter" THEN triangulation_edges(frame.self, Dimension)
    ELSE frame.todo

\* One of the two trials of obvious_edge_iter, for the orientation (v0, v1):
\* b = deepcopy(self.builder), the insertion of the orbit, and the test of
\* the edge graph of b when the insertion returned; VertexOrderError gives
\* False.  The set of the possible outcomes: the store, b, the fit, and an
\* exception that is not caught.
obvious_trial(store, self, v0, v1) ==
    Bind(deepcopy(store, self.builder), LAMBDA copy :
        {IF r.err = "none"
         THEN [store |-> [copy.store EXCEPT ![copy.ref] = builder_read(r.b, {1, 2})],
               ref |-> copy.ref, err |-> "none",
               fit |-> is_directed_acyclic(edge_graph(r.b))]
         ELSE [store |-> [copy.store EXCEPT ![copy.ref] = r.b],
               ref |-> copy.ref, fit |-> FALSE,
               err |-> IF r.err = "VertexOrderError" THEN "none" ELSE r.err] :
             r \in add_simplex_orbit(copy.store[copy.ref], "GroupBoxEdgeBuilder",
                                     side_length, group_gens, <<v0, v1>>)})

\* A plausible slip: an edge is yielded as soon as its first orientation fits
obvious_yield_first_fit(edge, fit_01, fit_10) ==
    IF fit_01 THEN <<edge>>
    ELSE IF fit_10 THEN << <<edge[2], edge[1]>> >>
    ELSE <<>>

\* What obvious_edge_iter yields for the edge after the two trials: the
\* orientation that fits when the other does not, in a tuple, else nothing
obvious_yield(edge, fit_01, fit_10) ==
    IF fit_01 /\ ~ fit_10 THEN <<edge>>
    ELSE IF fit_10 /\ ~ fit_01 THEN << <<edge[2], edge[1]>> >>
    ELSE <<>>

\* The generator on top of the stack is a running obvious_edge_iter: it was
\* asked for an edge, by the loop of the client or of
\* with_obvious_edges_added
ObviousRunning ==
    /\ pc = "call"
    /\ Top.op = "obvious_edge_iter"
    /\ Top.stage \in {"enter", "loop"} \/ Suspended

\* One pass of the for loop of obvious_edge_iter, for any edge it has not
\* come to: the two trials, each on its own copy, and the yield of the
\* orientation that fits alone, or nothing
ObviousEdge ==
    /\ ObviousRunning
    /\ \E edge \in obvious_todo(Top) :
         \E t01 \in obvious_trial(Store, Top.self, edge[1], edge[2]) :
           \E t10 \in obvious_trial(t01.store, Top.self, edge[2], edge[1]) :
             \E y \in {obvious_yield(edge, t01.fit /\ t01.err = "none",
                                     t10.fit /\ t10.err = "none")} :
               IF t01.err # "none" \/ t10.err # "none"
               THEN /\ SetStore(t10.store, {})
                    /\ EndCall(stack[2].op, <<>>,
                               IF t01.err # "none" THEN t01.err ELSE t10.err,
                               NoFinder)
                    /\ yielded' = yielded
               ELSE /\ Commit(ReplaceTop(FinderFrame(Top.op, Top.self, t10.ref,
                                             obvious_todo(Top) \ {edge},
                                             IF y = <<>> THEN edge ELSE y[1],
                                             IF y = <<>> THEN "loop" ELSE "yield")),
                              t10.store, {})
                    /\ pc' = pc
                    /\ calls' = <<>>
                    /\ yielded' = IF y # <<>> /\ Consumer.op = "client"
                                  THEN yield_add(yielded, y[1]) ELSE yielded
    /\ UNCHANGED <<side_length, group_gens, builder_class, class_map, cells,
                   orbit_state, pool>>

\* The for loop of obvious_edge_iter is over and the generator returns: the
\* loop of the client ends, or that of with_obvious_edges_added
ObviousEnd ==
    /\ ObviousRunning
    /\ obvious_todo(Top) = {}
    /\ IF Consumer.op = "client"
       THEN /\ EndCall("obvious_edge_iter", <<>>, "none", NoFinder)
            /\ SetStore(Store, {})
       ELSE /\ Commit(SubSeq(stack, 1, Len(stack) - 2)
                         \o <<[Consumer EXCEPT !.stage = "return"]>>,
                      Store, {})
            /\ pc' = pc
            /\ calls' = <<>>
    /\ UNCHANGED <<side_length, group_gens, yielded, builder_class, class_map,
                   cells, orbit_state, pool>>

\* The body of the for loop of with_obvious_edges_added for the edge that
\* the generator yielded: builder.add_simplex_orbit(edge[0], edge[1]) on the
\* copy of the method; then the loop asks the generator for the next edge.
\* What the insertion raises ends the call.
WithObviousInsert ==
    /\ pc = "call"
    /\ Top.op = "obvious_edge_iter"
    /\ Top.stage = "yield"
    /\ Consumer.op = "with_obvious_edges_added"
    /\ \E r \in add_simplex_orbit(Store[Consumer.builder], "GroupBoxEdgeBuilder",
                                  side_length, group_gens, Top.edge) :
         IF r.err # "none"
         THEN /\ SetStore(Store, {})
              /\ EndCall("with_obvious_edges_added", <<>>, r.err, NoFinder)
         ELSE /\ Commit(ReplaceTop([Top EXCEPT !.stage = "loop"]),
                        [Store EXCEPT ![Consumer.builder] = r.b], {})
              /\ pc' = pc
              /\ calls' = <<>>
    /\ UNCHANGED <<side_length, group_gens, yielded, builder_class, class_map,
                   cells, orbit_state, pool>>

\* return TriangulationEdgeFinder(builder) of with_obvious_edges_added
WithObviousReturn ==
    /\ pc = "call"
    /\ Top.op = "with_obvious_edges_added"
    /\ Top.stage = "return"
    /\ \E m \in {method_result(Store, Top.builder, "none")} :
         /\ SetStore(m.store, m.held)
         /\ EndCall("with_obvious_edges_added", <<>>, "none", m.finder)
    /\ UNCHANGED <<side_length, group_gens, yielded, builder_class, class_map,
                   cells, orbit_state, pool>>

\* The builders of the finders that edge_orientations_iter has yielded,
\* which the client holds
held_builders(y) == {finder.builder : finder \in DOMAIN y}

\* for finder in finder.edge_orientations_iter() of the client: the
\* generator is made; it runs when the loop asks for the first finder
CallEdgeOrientationsIter ==
    /\ pc = "ready"
    /\ pc' = "call"
    /\ calls' = <<>>
    /\ stack' = Append(stack, FinderFrame("edge_orientations_iter", stack[1].self,
                                          NoReference, {}, <<>>, "enter"))
    /\ UNCHANGED <<side_length, group_gens, sorted_simplices, simplices, boundary,
                   yielded, builder_class, class_map, cells, heap, orbit_state,
                   pool>>

\* The generator on top of the stack is a running edge_orientations_iter at
\* one of the places of stages
IterAt(stages) ==
    /\ pc = "call"
    /\ Top.op = "edge_orientations_iter"
    /\ Top.stage \in stages

\* builder = deepcopy(self.builder), and no edge is left: `yield self`.  The
\* client has the finder, and the call, with all its callers, is suspended.
IterYield ==
    /\ IterAt({"enter"})
    /\ triangulation_edges(Top.self, Dimension) = {}
    /\ \E copy \in {deepcopy(Store, Top.self.builder)} :
         \E y \in {yield_add(yielded, Top.self)} :
           /\ yielded' = y
           /\ Commit(ReplaceTop([Top EXCEPT !.builder = copy.ref, !.stage = "yield"]),
                     copy.store, held_builders(y))
    /\ pc' = pc
    /\ calls' = <<>>
    /\ UNCHANGED <<side_length, group_gens, builder_class, class_map, cells,
                   orbit_state, pool>>

\* The innermost call of edge_orientations_iter returns: its caller goes on
\* after its for loop, or the loop of the client is over
IterPop ==
    IF Len(stack) = 2
    THEN /\ EndCall("edge_orientations_iter", <<>>, "none", NoFinder)
         /\ SetStore(Store, held_builders(yielded))
    ELSE /\ Commit(SubSeq(stack, 1, Len(stack) - 1), Store, held_builders(yielded))
         /\ pc' = pc
         /\ calls' = <<>>

\* The client asks for the next finder: the call that yielded goes on after
\* its yield, to `return`.
IterResume ==
    /\ IterAt({"yield"})
    /\ IterPop
    /\ UNCHANGED <<side_length, group_gens, yielded, builder_class, class_map,
                   cells, orbit_state, pool>>

\* builder = deepcopy(self.builder), and
\* next(iter(self.triangulation_edges())): any of the edges left
IterPick ==
    /\ IterAt({"enter"})
    /\ \E e \in triangulation_edges(Top.self, Dimension) :
         \E copy \in {deepcopy(Store, Top.self.builder)} :
           Commit(ReplaceTop([Top EXCEPT !.builder = copy.ref, !.edge = e,
                                         !.stage = "first"]),
                  copy.store, held_builders(yielded))
    /\ pc' = pc
    /\ calls' = <<>>
    /\ UNCHANGED <<side_length, group_gens, yielded, builder_class, class_map,
                   cells, orbit_state, pool>>

\* One of the two trials of edge_orientations_iter, of the call of frame:
\* "cyclic" when the edge closes a cycle in a copy of the unit graph, else
\* builder = deepcopy(self.builder) and the outcome of add_simplex_orbit on
\* it, and with "none" the finder of that builder, whose constructor reads
\* it.  The set of the possible outcomes.
iter_trial(store, frame) ==
    Bind(IF frame.stage = "first" THEN frame.edge
         ELSE <<frame.edge[2], frame.edge[1]>>, LAMBDA e :
        IF ~ Bind(graph_add_edge(frame.self.unit_graph, e[1], e[2]),
                  is_directed_acyclic)
        THEN {[outcome |-> "cyclic", store |-> store, ref |-> frame.builder,
               finder |-> NoFinder]}
        ELSE Bind(deepcopy(store, frame.self.builder), LAMBDA copy :
                 {Bind(method_result([copy.store EXCEPT ![copy.ref] = r.b],
                                     copy.ref, r.err),
                       LAMBDA m : [outcome |-> r.err, store |-> m.store,
                                   ref |-> copy.ref, finder |-> m.finder]) :
                     r \in add_simplex_orbit(copy.store[copy.ref],
                                             "GroupBoxEdgeBuilder", side_length,
                                             group_gens, e)}))

\* The frame of the call after a trial: the builder it holds, and its
\* place after the trial
after_trial(frame, ref) ==
    [frame EXCEPT !.builder = ref,
                  !.stage = IF frame.stage = "first" THEN "second" ELSE "exit"]

\* The orientation fits: the generator calls itself on the finder of the
\* copy.
IterDescend ==
    /\ IterAt({"first", "second"})
    /\ \E trial \in iter_trial(Store, Top) :
         /\ trial.outcome = "none"
         /\ Commit(Append(ReplaceTop(after_trial(Top, trial.ref)),
                          FinderFrame("edge_orientations_iter", trial.finder,
                                      NoReference, {}, <<>>, "enter")),
                   trial.store, held_builders(yielded))
    /\ pc' = pc
    /\ calls' = <<>>
    /\ UNCHANGED <<side_length, group_gens, yielded, builder_class, class_map,
                   cells, orbit_state, pool>>

\* The orientation closes a cycle or add_simplex_orbit raises
\* VertexOrderError: it is passed over; an exception that is not caught
\* leaves the generator and all its callers and reaches the client.
IterPrune ==
    /\ IterAt({"first", "second"})
    /\ \E trial \in iter_trial(Store, Top) :
         /\ trial.outcome # "none"
         /\ IF trial.outcome = "cyclic" \/ except_VertexOrderError(trial.outcome)
            THEN /\ Commit(ReplaceTop(after_trial(Top, trial.ref)), trial.store,
                           held_builders(yielded))
                 /\ pc' = pc
                 /\ calls' = <<>>
            ELSE /\ SetStore(trial.store, held_builders(yielded))
                 /\ EndCall("edge_orientations_iter", <<>>, trial.outcome, NoFinder)
    /\ UNCHANGED <<side_length, group_gens, yielded, builder_class, class_map,
                   cells, orbit_state, pool>>

\* Both orientations were tried: the generator returns.
IterReturn ==
    /\ IterAt({"exit"})
    /\ IterPop
    /\ UNCHANGED <<side_length, group_gens, yielded, builder_class, class_map,
                   cells, orbit_state, pool>>

\* The client drops what the call gave it, and its finder
FinderReturn ==
    /\ pc = "called"
    /\ pc' = "build"
    /\ calls' = <<>>
    /\ stack' = <<>>
    /\ yielded' = EmptyDict
    /\ heap' = EmptyDict
    /\ UNCHANGED <<side_length, group_gens, sorted_simplices, simplices,
                   boundary, builder_class, class_map, cells, orbit_state, pool>>

NextFinder ==
    \/ ClientAddSimplex
    \/ ClientAddSimplexOrbit
    \/ NewFinder
    \/ CallWithEdgeAdded
    \/ CallWithAllEdgesToOrigin
    \/ CallObviousEdgeIter
    \/ CallWithObviousEdgesAdded
    \/ ObviousEdge
    \/ ObviousEnd
    \/ WithObviousInsert
    \/ WithObviousReturn
    \/ CallEdgeOrientationsIter
    \/ IterYield
    \/ IterResume
    \/ IterPick
    \/ IterDescend
    \/ IterPrune
    \/ IterReturn
    \/ FinderReturn

SpecFinder == InitFinder /\ [][NextFinder]_vars

\* One run of the search by a client that builds with add_simplex_orbit
\* alone and then iterates the generator to its end
NextSearchLive ==
    \/ BuildAddSimplexOrbit
    \/ StartSearch
    \/ Yield
    \/ Resume
    \/ Pick
    \/ Descend
    \/ Prune
    \/ Return

SpecSearchLive == InitFinder /\ [][NextSearchLive]_vars /\ WF_vars(SearchStep)

(***************************************************************************)
(* cell_complex.py: SimplexRelation and CellCollection.quotient, and       *)
(* builder.py: TorusBuilder.torus_relation.  A class is a set of           *)
(* simplices; class_map is the dict of the relation.                       *)
(***************************************************************************)
\* SimplexRelation.__call__: the class of simplex
class_of(cm, simplex) ==
    IF simplex \in DOMAIN cm THEN cm[simplex] ELSE {simplex}

\* A plausible slip: the class starts empty and takes the given simplices,
\* not their classes.
_unsafe_identify_given_only(cm, given) ==
    [s \in (DOMAIN cm) \cup Range(given) |->
        IF s \in Range(given) THEN Range(given) ELSE cm[s]]

\* SimplexRelation._unsafe_identify: the union of the classes of the given
\* simplices becomes the class of each of the given simplices
_unsafe_identify(cm, given) ==
    LET union == UNION {class_of(cm, given[k]) : k \in 1..Len(given)}
    IN  [s \in (DOMAIN cm) \cup Range(given) |->
            IF s \in Range(given) THEN union ELSE cm[s]]

\* zip(*tuples): the tuples of the i-th entries, as far as the shortest goes
zip(tuples) ==
    IF tuples = <<>> THEN <<>>
    ELSE [i \in 1..Min({Len(tuples[k]) : k \in 1..Len(tuples)}) |->
             [k \in 1..Len(tuples) |-> tuples[k][i]]]

\* SimplexRelation.identify, and its loop over the tuples of i-th faces.
\* builder.boundary[simplex] raises KeyError for a simplex never inserted.
RECURSIVE identify(_, _, _)
RECURSIVE identify_faces(_, _, _)
identify(cm, bdry, given) ==
    Bind(_unsafe_identify(cm, given), LAMBDA merged :
        IF \E k \in 1..Len(given) : given[k] \notin DOMAIN bdry
        THEN [class_map |-> merged, err |-> "KeyError"]
        ELSE identify_faces(merged, bdry,
                            zip([k \in 1..Len(given) |-> bdry[given[k]]])))

identify_faces(cm, bdry, todo) ==
    IF todo = <<>> THEN [class_map |-> cm, err |-> "none"]
    ELSE Bind(identify(cm, bdry, Head(todo)), LAMBDA r :
             IF r.err # "none" THEN r
             ELSE identify_faces(r.class_map, bdry, Tail(todo)))

\* BoxBuilder.facets_at_boundary(coordinate_index, inner), the index
\* 1-based here, as a set: the tuple returned holds its elements in any
\* order.  It reads self.simplices[self.dimension], which leaves the builder
\* as builder_read(b, {Len(sl)}).
facets_at_boundary(b, sl, coordinate_index, inner) ==
    LET value == IF inner THEN 0 ELSE sl[coordinate_index]
    IN  {facet \in simplices_at(b.simplices, Len(sl)) :
            \A k \in 1..Len(facet) : facet[k][coordinate_index] = value}

\* The result of torus_relation: the builder, whose registry _make_simplex
\* writes, the relation, and the exception raised if any
RelationResult(b, cm, err) == [b |-> b, class_map |-> cm, err |-> err]

\* The inner loop of torus_relation over the facets of one boundary
RECURSIVE torus_relation_facets(_, _, _, _, _)
torus_relation_facets(b, cm, sl, index, facets0) ==
    IF facets0 = <<>> THEN RelationResult(b, cm, "none")
    ELSE LET facet0 == Head(facets0)
         IN  Bind(_make_simplex(b, map_translate(index, sl[index], facet0)), LAMBDA m :
                 IF m.err # "none" THEN RelationResult(m.b, cm, m.err)
                 ELSE IF m.ret \notin simplices_at(m.b.simplices, Len(facet0))
                 THEN RelationResult(m.b, cm, "AssertionError")
                 ELSE Bind(identify(cm, m.b.boundary, <<m.ret, facet0>>), LAMBDA r :
                          IF r.err # "none" THEN RelationResult(m.b, r.class_map, r.err)
                          ELSE torus_relation_facets(m.b, r.class_map, sl, index,
                                                     Tail(facets0))))

\* The outer loop of torus_relation over the axes index, index + 1, ...:
\* the set of its possible outcomes.  facets_at_boundary reads the table of
\* the builder, and the facets come in any order.
RECURSIVE torus_relation_loop(_, _, _, _)
torus_relation_loop(b, cm, sl, index) ==
    IF index > Len(sl) THEN {RelationResult(b, cm, "none")}
    ELSE Bind(builder_read(b, {Len(sl)}), LAMBDA read :
             UNION {Bind(torus_relation_facets(read, cm, sl, index, facets0),
                         LAMBDA r :
                             IF r.err # "none" THEN {r}
                             ELSE torus_relation_loop(r.b, r.class_map, sl, index + 1))
                    : facets0 \in tuple_of(facets_at_boundary(read, sl, index, TRUE))})

\* TorusBuilder.torus_relation: the set of its possible outcomes
torus_relation(b, sl) == torus_relation_loop(b, EmptyDict, sl, 1)

\* quotient_simplices of CellCollection.quotient.  The loop reads
\* self.simplices[dim] for dim in range(self.dimension + 2); builder.cells
\* holds the table of the builder itself, which is left as
\* builder_read(b, 0..(dimension + 1)).
quotient_simplices(b, cm, dimension) ==
    [dim \in 0..(dimension + 1) |->
        {class_of(cm, simplex) : simplex \in simplices_at(b.simplices, dim)}]

\* [relation(facet) for facet in value]
quotient_entry(cm, value) == [i \in 1..Len(value) |-> class_of(cm, value[i])]

\* The dicts that the loop over boundary.items() can leave in
\* quotient_boundary: the entry of a class is written once for each of its
\* members, and the member that the dict hands out last stays.
RECURSIVE quotient_boundaries(_, _, _)
quotient_boundaries(bdry, cm, classes) ==
    IF classes = {} THEN {EmptyDict}
    ELSE LET class == CHOOSE c \in classes : TRUE
         IN  {dict_set(d, class, quotient_entry(cm, bdry[key])) :
                 d \in quotient_boundaries(bdry, cm, classes \ {class}),
                 key \in {k \in DOMAIN bdry : class_of(cm, k) = class}}

\* The CellCollections that CellCollection.quotient can return
quotient(b, cm, dimension) ==
    {[simplices |-> quotient_simplices(b, cm, dimension), boundary |-> qb] :
        qb \in quotient_boundaries(b.boundary, cm,
                                   {class_of(cm, key) : key \in DOMAIN b.boundary})}

(***************************************************************************)
(* The relation as a state machine.  A TorusBuilder for the box of side 2  *)
(* holds the two edges of the path 0 - 1 - 2.  A relation on it is either  *)
(* made by torus_relation or made empty, simplices of equal length are     *)
(* identified, and the quotient is taken.                                  *)
(***************************************************************************)
MaxIdentify == 2
MaxGiven == 2

RelationBuilder ==
    add_simplices(NewBuilder, <<2>>,
                  << << <<0>>, <<1>> >>, << <<1>>, <<2>> >> >>).b

InitRel ==
    /\ side_length = <<2>>
    /\ group_gens = <<>>
    /\ sorted_simplices = RelationBuilder.sorted_simplices
    /\ simplices = RelationBuilder.simplices
    /\ boundary = RelationBuilder.boundary
    /\ calls = <<>>
    /\ pc = "relate"
    /\ stack = <<>>
    /\ yielded = EmptyDict
    /\ builder_class = "TorusBuilder"
    /\ class_map = EmptyDict
    /\ cells = NoCells
    /\ heap = EmptyDict
    /\ orbit_state = NoOrbit
    /\ pool = {}

\* relation.identify(*given), for one to MaxGiven simplices of the builder
\* with the same number of vertices, repetitions allowed
Identify ==
    /\ pc = "relate"
    /\ Len(calls) < MaxIdentify
    /\ \E given \in UNION {[1..n -> simplices_at(simplices, dim)] :
                            n \in 1..MaxGiven, dim \in 1..(Dimension + 1)} :
         LET r == identify(class_map, boundary, given)
         IN  /\ class_map' = r.class_map
             /\ calls' = Append(calls, [op |-> "identify", given |-> given,
                                        err |-> r.err])
    /\ UNCHANGED <<side_length, group_gens, sorted_simplices, simplices, boundary,
                   pc, stack, yielded, pool, builder_class, cells, heap, orbit_state>>

\* relation = builder.torus_relation()
TorusRelation ==
    /\ pc = "relate"
    /\ calls = <<>>
    /\ \E r \in torus_relation(Builder, side_length) :
           /\ SetBuilder(r.b)
           /\ class_map' = r.class_map
           /\ calls' = Append(calls, [op |-> "torus_relation", given |-> <<>>,
                                      err |-> r.err])
    /\ UNCHANGED <<side_length, group_gens, pc, stack, yielded, pool, builder_class,
                   cells, heap, orbit_state>>

\* builder.cells.quotient(relation)
Quotient ==
    /\ pc = "relate"
    /\ pc' = "quotient"
    /\ cells' \in quotient(Builder, class_map, Dimension)
    /\ SetBuilder(builder_read(Builder, 0..(Dimension + 1)))
    /\ UNCHANGED <<side_length, group_gens, calls, stack, yielded, pool,
                   builder_class, class_map, orbit_state, heap>>

NextRel ==
    \/ Identify
    \/ TorusRelation
    \/ Quotient

SpecRel == InitRel /\ [][NextRel]_vars

(***************************************************************************)
(* orbit as a state machine.  A TorusQuotientBuilder or a                  *)
(* GroupBoxEdgeBuilder is constructed with generators the caller chose:    *)
(* symmetries of its torus, and the swap of the axes of the 2 x 1 box,     *)
(* which is none (the constructor does not test the generators).  orbit    *)
(* is called on points and edges of the box.  A                            *)
(* step is the part of orbit before its loop, one turn of the loop with    *)
(* any element popped from todo, or the end of the call.  The registry,    *)
(* which _make_simplex writes, is the builder's at every step.             *)
(***************************************************************************)
MaxOrbitCalls == 1
MaxOrbitVertices == 2

OrbitConfigs ==
    {[side_length |-> c[1], group_gens |-> c[2], builder_class |-> cls] :
        c \in {<<<<3>>, <<"translate">>>>,
               <<<<1, 1>>, <<"swap">>>>,
               <<<<2, 1>>, <<"swap">>>>,
               <<<<2, 1>>, <<"negate">>>>,
               <<<<2, 1>>, <<"translate", "negate">>>>},
        cls \in {"TorusQuotientBuilder", "GroupBoxEdgeBuilder"}}

InitOrbit ==
    /\ \E c \in OrbitConfigs :
         /\ side_length = c.side_length
         /\ group_gens = c.group_gens
         /\ builder_class = c.builder_class
    /\ sorted_simplices = EmptyDict
    /\ simplices = EmptyDict
    /\ boundary = EmptyDict
    /\ calls = <<>>
    /\ pc = "idle"
    /\ stack = <<>>
    /\ yielded = EmptyDict
    /\ class_map = EmptyDict
    /\ cells = NoCells
    /\ heap = EmptyDict
    /\ orbit_state = NoOrbit
    /\ pool = {}

\* The locals of orbit, from the state of its loop
OrbitLocals(vertices, o) ==
    [vertices |-> vertices, err |-> o.err, orbit |-> o.orbit, todo |-> o.todo]

\* builder.orbit(*vertices) is called, with a tuple of distinct points of
\* the box, and runs up to its loop
OrbitCall ==
    /\ pc = "idle"
    /\ Len(calls) < MaxOrbitCalls
    /\ \E vertices \in {v \in InjectiveTuples(points(side_length)) :
                            Len(v) \in 1..MaxOrbitVertices} :
         LET o == orbit_start(Builder, builder_class, side_length, vertices)
         IN  /\ SetBuilder(o.b)
             /\ orbit_state' = OrbitLocals(vertices, o)
    /\ pc' = "orbit"
    /\ UNCHANGED <<side_length, group_gens, calls, stack, yielded, pool, builder_class,
                   class_map, cells, heap>>

\* One turn of the while loop: todo.pop() and the loop over the generators
OrbitTurn ==
    /\ pc = "orbit"
    /\ orbit_state.err = "none"
    /\ \E simplex \in orbit_state.todo :
         \E o \in {orbit_turn(OrbitState(Builder, orbit_state.err,
                                         orbit_state.orbit, orbit_state.todo),
                              builder_class, side_length, group_gens, simplex)} :
             /\ SetBuilder(o.b)
             /\ orbit_state' = OrbitLocals(orbit_state.vertices, o)
    /\ UNCHANGED <<side_length, group_gens, calls, pc, stack, yielded, pool, builder_class,
                   class_map, cells, heap>>

\* todo is empty and orbit returns tuple(orbit), or VertexOrderError leaves it
OrbitReturn ==
    /\ pc = "orbit"
    /\ orbit_state.err # "none" \/ orbit_state.todo = {}
    /\ calls' = Append(calls, [vertices |-> orbit_state.vertices,
                               err |-> orbit_state.err,
                               ret |-> orbit_state.orbit])
    /\ pc' = "idle"
    /\ orbit_state' = NoOrbit
    /\ UNCHANGED <<side_length, group_gens, sorted_simplices, simplices, boundary,
                   stack, yielded, pool, builder_class, class_map, cells, heap>>

NextOrbit ==
    \/ OrbitCall
    \/ OrbitTurn
    \/ OrbitReturn

SpecOrbit == InitOrbit /\ [][NextOrbit]_vars

(***************************************************************************)
(* orbit run to its end: one call, on a new builder, with a tuple of       *)
(* distinct points of the box, which orbit_state.vertices holds from the   *)
(* start.  The steps of the call are                                       *)
(* those of SpecOrbit.  A call of orbit is one thread of control, so that  *)
(* a turn of the loop that can be taken is taken, and so is the return.    *)
(***************************************************************************)
\* The tuples of at most n distinct elements of S
RECURSIVE DistinctTuples(_, _)
DistinctTuples(S, n) ==
    IF n = 0 THEN {<<>>}
    ELSE {<<>>} \cup UNION {{<<x>> \o t : t \in DistinctTuples(S \ {x}, n - 1)} : x \in S}

InitOrbitLive ==
    /\ \E c \in
            {[side_length |-> <<3>>, group_gens |-> <<"translate">>,
              builder_class |-> "TorusQuotientBuilder"],
             [side_length |-> <<2>>, group_gens |-> <<"translate", "negate">>,
              builder_class |-> "GroupBoxEdgeBuilder"],
             [side_length |-> <<1, 1>>, group_gens |-> <<"swap">>,
              builder_class |-> "TorusQuotientBuilder"]} :
         /\ side_length = c.side_length
         /\ group_gens = c.group_gens
         /\ builder_class = c.builder_class
    /\ sorted_simplices = EmptyDict
    /\ simplices = EmptyDict
    /\ boundary = EmptyDict
    /\ calls = <<>>
    /\ pc = "idle"
    /\ stack = <<>>
    /\ yielded = EmptyDict
    /\ class_map = EmptyDict
    /\ cells = NoCells
    /\ heap = EmptyDict
    /\ \E vertices \in DistinctTuples(points(side_length), MaxOrbitVertices) \ {<<>>} :
         orbit_state = [NoOrbit EXCEPT !.vertices = vertices]
    /\ pool = {}

\* builder.orbit(*vertices) is called and runs up to its loop
OrbitLiveCall ==
    /\ pc = "idle"
    /\ calls = <<>>
    /\ \E o \in {orbit_start(Builder, builder_class, side_length,
                               orbit_state.vertices)} :
           /\ SetBuilder(o.b)
           /\ orbit_state' = OrbitLocals(orbit_state.vertices, o)
    /\ pc' = "orbit"
    /\ UNCHANGED <<side_length, group_gens, calls, stack, yielded, pool, builder_class,
                   class_map, cells, heap>>

NextOrbitLive ==
    \/ OrbitLiveCall
    \/ OrbitTurn
    \/ OrbitReturn

SpecOrbitLive ==
    /\ InitOrbitLive
    /\ [][NextOrbitLive]_vars
    /\ WF_vars(OrbitTurn)
    /\ WF_vars(OrbitReturn)

(***************************************************************************)
(* top_orbit_iter as a state machine.  A TorusQuotientBuilder is           *)
(* constructed and top-dimensional simplices are added to it; then         *)
(* top_orbit_iter is run to its end by one of two consumers, which leave   *)
(* the builder alone: the loop of quotient_relation, whose body is         *)
(* relation.identify of the orbit, and a loop of the client with an empty  *)
(* body.                                                                   *)
(* The generator runs from its start or from the yield where it is         *)
(* suspended to the next yield: it takes the orbit it yielded last out of  *)
(* the pool (TopOrbitResume), picks any simplex of the pool and computes   *)
(* its orbit, and yields it (TopOrbitYield), or is left by the assertion   *)
(* or by the VertexOrderError of orbit.  While it is suspended the orbit   *)
(* is its local variable, held in orbit_state, and is still in the pool.   *)
(* stack holds the frame of quotient_relation while it runs.               *)
(***************************************************************************)
InitTop ==
    /\ \E c \in
            {[side_length |-> <<2>>, group_gens |-> <<>>],
             [side_length |-> <<3>>, group_gens |-> <<"translate">>],
             [side_length |-> <<4>>, group_gens |-> <<"negate">>],
             [side_length |-> <<1, 2>>, group_gens |-> <<>>]} :
         /\ side_length = c.side_length
         /\ group_gens = c.group_gens
    /\ sorted_simplices = EmptyDict
    /\ simplices = EmptyDict
    /\ boundary = EmptyDict
    /\ calls = <<>>
    /\ pc = "build"
    /\ stack = <<>>
    /\ yielded = EmptyDict
    /\ builder_class = "TorusQuotientBuilder"
    /\ class_map = EmptyDict
    /\ cells = NoCells
    /\ heap = EmptyDict
    /\ orbit_state = NoOrbit
    /\ pool = {}

\* The top-dimensional simplices the client adds: on a line the edges
\* between neighbouring points, in the plane the triangles with the three
\* points of a vertical line as vertices
TopInputs ==
    IF Dimension = 1
    THEN {e \in points(side_length) \X points(side_length) :
             e[1][1] - e[2][1] \in {-1, 1}}
    ELSE {vertices \in InjectiveTuples(points(side_length)) :
             /\ Len(vertices) = Dimension + 1
             /\ \A k \in 1..Len(vertices) : vertices[k][1] = vertices[1][1]}

\* builder.add_simplex(*vertices) of the client, returning or raising: the
\* builder is left as the call left it
TopBuild ==
    /\ pc = "build"
    /\ \E vertices \in TopInputs :
         \E r \in {add_simplex(Builder, side_length, vertices)} :
             SetBuilder(r.b)
    /\ UNCHANGED <<side_length, group_gens, calls, pc, stack, yielded, builder_class,
                   class_map, cells, heap, orbit_state, pool>>

\* for orbit in builder.top_orbit_iter() of the client, up to the while
\* test of the generator: simplices = set(self.simplices[...])
TopOrbitStart ==
    /\ pc = "build"
    /\ pc' = "top"
    /\ pool' = simplices_at(simplices, Dimension + 1)
    /\ SetBuilder(builder_read(Builder, {Dimension + 1}))
    /\ UNCHANGED <<side_length, group_gens, calls, stack, yielded, builder_class,
                   class_map, cells, heap, orbit_state>>

\* builder.quotient_relation() of the client, up to the while test of the
\* generator its loop starts: relation = self.torus_relation(), and
\* simplices = set(self.simplices[...])
QuotientRelationStart ==
    /\ pc = "build"
    /\ \E r \in torus_relation(Builder, side_length) :
         /\ r.err = "none"
         /\ class_map' = r.class_map
         /\ pool' = simplices_at(r.b.simplices, Dimension + 1)
         /\ SetBuilder(builder_read(r.b, {Dimension + 1}))
    /\ pc' = "top"
    /\ stack' = <<[op |-> "quotient_relation", stage |-> "next"]>>
    /\ UNCHANGED <<side_length, group_gens, calls, yielded, builder_class,
                   cells, heap, orbit_state>>

\* builder.quotient_relation() of the client, left by what torus_relation
\* raises, before top_orbit_iter is called
QuotientRelationRaise ==
    /\ pc = "build"
    /\ \E r \in torus_relation(Builder, side_length) :
         /\ r.err # "none"
         /\ SetBuilder(r.b)
         /\ calls' = Append(calls, [op |-> "quotient_relation",
                                    err |-> r.err, orbit |-> {}])
    /\ pc' = "failed"
    /\ UNCHANGED <<side_length, group_gens, stack, yielded, builder_class,
                   class_map, cells, heap, orbit_state, pool>>

\* A plausible slip: only one simplex of the orbit is taken out of the pool
pool_without_one(remaining, orbit_tuple) ==
    remaining \ {CHOOSE s \in orbit_tuple : TRUE}

\* simplices.difference_update(orbit)
pool_without(remaining, orbit_tuple) == remaining \ orbit_tuple

\* The call of orbit in a turn of top_orbit_iter's loop, for the simplex
\* picked: the set of its possible outcomes
TopOrbit(simplex) == orbit(Builder, builder_class, side_length, group_gens, simplex)

\* The consumer asks for the next orbit and the generator can run
TopRunning == pc = "top" /\ (IF stack = <<>> THEN TRUE ELSE Top.stage = "next")

\* A turn of the loop up to yield orbit: the orbit of the simplex picked
\* passes the assertion and goes to the consumer; the generator is
\* suspended with it
TopOrbitYield ==
    /\ TopRunning
    /\ \E simplex \in pool :
         \E r \in TopOrbit(simplex) :
             /\ r.err = "none"
             /\ r.ret \subseteq pool
             /\ SetBuilder(r.b)
             /\ yielded' = yield_add(yielded, r.ret)
             /\ orbit_state' = [vertices |-> simplex, err |-> "none",
                                orbit |-> r.ret, todo |-> {}]
    /\ pc' = "yield"
    /\ stack' = IF stack = <<>> THEN stack
                 ELSE <<[op |-> "quotient_relation", stage |-> "body"]>>
    /\ UNCHANGED <<side_length, group_gens, calls, builder_class,
                   class_map, cells, heap, pool>>

\* The body of the loop of quotient_relation: relation.identify(*orbit),
\* the orbit a tuple in any order.  The simplices of the orbit are in the
\* simplex table, so that identify finds the boundary of each.
QuotientRelationIdentify ==
    /\ pc = "yield"
    /\ stack # <<>> /\ Top.stage = "body"
    /\ \E given \in tuple_of(orbit_state.orbit) :
         \E r \in {identify(class_map, boundary, given)} :
             /\ r.err = "none"
             /\ class_map' = r.class_map
    /\ stack' = <<[op |-> "quotient_relation", stage |-> "next"]>>
    /\ UNCHANGED <<side_length, group_gens, sorted_simplices, simplices, boundary,
                   calls, pc, yielded, builder_class, cells, heap, orbit_state, pool>>

\* The consumer asks for the next orbit and the generator goes on after
\* its yield: simplices.difference_update(orbit), up to the while test
TopOrbitResume ==
    /\ pc = "yield"
    /\ IF stack = <<>> THEN TRUE ELSE Top.stage = "next"
    /\ pool' = pool_without(pool, orbit_state.orbit)
    /\ orbit_state' = NoOrbit
    /\ pc' = "top"
    /\ UNCHANGED <<side_length, group_gens, sorted_simplices, simplices, boundary,
                   calls, stack, yielded, builder_class, class_map, cells, heap>>

\* A turn of the loop that the assertion 'invalid group action' ends; the
\* consumer has no handler, and is left by it as well
TopOrbitAbort ==
    /\ TopRunning
    /\ \E simplex \in pool :
         \E r \in TopOrbit(simplex) :
             /\ r.err = "none"
             /\ ~ (r.ret \subseteq pool)
             /\ SetBuilder(r.b)
             /\ calls' = Append(calls, [op |-> "top_orbit_iter",
                                        err |-> "AssertionError", orbit |-> r.ret])
    /\ pc' = "raised"
    /\ stack' = <<>>
    /\ UNCHANGED <<side_length, group_gens, yielded, builder_class,
                   class_map, cells, heap, orbit_state, pool>>

\* A turn of the loop in which orbit raises VertexOrderError
TopOrbitRaise ==
    /\ TopRunning
    /\ \E simplex \in pool :
         \E r \in TopOrbit(simplex) :
             /\ r.err # "none"
             /\ SetBuilder(r.b)
             /\ calls' = Append(calls, [op |-> "top_orbit_iter",
                                        err |-> r.err, orbit |-> {}])
    /\ pc' = "raised"
    /\ stack' = <<>>
    /\ UNCHANGED <<side_length, group_gens, yielded, builder_class,
                   class_map, cells, heap, orbit_state, pool>>

\* The pool is empty: the generator returns, and the loop of the consumer
\* is over
TopOrbitEnd ==
    /\ TopRunning
    /\ pool = {}
    /\ pc' = "done"
    /\ UNCHANGED <<side_length, group_gens, sorted_simplices, simplices, boundary,
                   calls, stack, yielded, builder_class, class_map, cells, heap,
                   orbit_state, pool>>

\* return relation of quotient_relation
QuotientRelationReturn ==
    /\ pc = "done"
    /\ stack # <<>>
    /\ stack' = <<>>
    /\ calls' = Append(calls, [op |-> "quotient_relation", err |-> "none",
                               orbit |-> {}])
    /\ UNCHANGED <<side_length, group_gens, sorted_simplices, simplices, boundary,
                   pc, yielded, builder_class, class_map, cells, heap,
                   orbit_state, pool>>

NextTop ==
    \/ TopBuild
    \/ TopOrbitStart
    \/ QuotientRelationStart
    \/ QuotientRelationRaise
    \/ TopOrbitYield
    \/ QuotientRelationIdentify
    \/ TopOrbitResume
    \/ TopOrbitAbort
    \/ TopOrbitRaise
    \/ TopOrbitEnd
    \/ QuotientRelationReturn

SpecTop == InitTop /\ [][NextTop]_vars

(***************************************************************************)
(* The builder with any caller: a TorusQuotientBuilder over a box is given *)
(* tuples of distinct points of the box and of the points one step beyond  *)
(* it, by add_simplex and by add_simplex_orbit, any number of times and    *)
(* whether or not the call before raised.  calls holds the last call with  *)
(* what it returned or raised.  With the translation as generator the      *)
(* orbit of an edge has simplices inside and outside the box, and what     *)
(* add_simplex_orbit leaves when it raises depends on the order in which   *)
(* it comes to them.                                                       *)
(***************************************************************************)
MaxBoxVertices == 2

InitBox ==
    /\ \E c \in
            {[side_length |-> <<1>>, group_gens |-> <<>>],
             [side_length |-> <<2>>, group_gens |-> <<"translate">>]} :
         /\ side_length = c.side_length
         /\ group_gens = c.group_gens
    /\ sorted_simplices = EmptyDict
    /\ simplices = EmptyDict
    /\ boundary = EmptyDict
    /\ calls = <<>>
    /\ pc = "build"
    /\ stack = <<>>
    /\ yielded = EmptyDict
    /\ builder_class = "TorusQuotientBuilder"
    /\ class_map = EmptyDict
    /\ cells = NoCells
    /\ heap = EmptyDict
    /\ orbit_state = NoOrbit
    /\ pool = {}

\* The arguments of the calls: without generators up to MaxBoxVertices
\* distinct points of the box or one step beyond its far faces; with the translation
\* MaxBoxVertices distinct points of the box, which the translation takes
\* out of the box
BoxInputs ==
    IF group_gens = <<>>
    THEN {v \in InjectiveTuples(points([i \in 1..Len(side_length) |->
                                           side_length[i] + 1])) :
             Len(v) <= MaxBoxVertices}
    ELSE {v \in InjectiveTuples(points(side_length)) : Len(v) = MaxBoxVertices}

\* builder.add_simplex(*vertices), returning or raising
BoxAddSimplex ==
    /\ \E vertices \in BoxInputs :
         LET r == add_simplex(Builder, side_length, vertices)
         IN  /\ SetBuilder(r.b)
             /\ calls' = <<[op |-> "add_simplex", vertices |-> vertices,
                           err |-> r.err, ret |-> r.ret]>>
    /\ UNCHANGED <<builder_class, class_map, cells, heap, orbit_state>>
    /\ UNCHANGED <<side_length, group_gens, pc, stack, yielded, pool>>

\* builder.add_simplex_orbit(*vertices), returning or raising
BoxAddSimplexOrbit ==
    /\ \E vertices \in BoxInputs :
         \E r \in add_simplex_orbit(Builder, builder_class, side_length,
                                    group_gens, vertices) :
             /\ SetBuilder(r.b)
             /\ calls' = <<[op |-> "add_simplex_orbit", vertices |-> vertices,
                           err |-> r.err, ret |-> r.ret]>>
    /\ UNCHANGED <<builder_class, class_map, cells, heap, orbit_state>>
    /\ UNCHANGED <<side_length, group_gens, pc, stack, yielded, pool>>

NextBox ==
    \/ BoxAddSimplex
    \/ BoxAddSimplexOrbit

SpecBox == InitBox /\ [][NextBox]_vars

(***************************************************************************)
(* _make_fundamental_region_simplex on its own.  A builder with            *)
(* generators is constructed, and the method is called on a tuple of       *)
(* distinct lattice points from MaxShift box widths below the box to one   *)
(* above it,                                                               *)
(* and then once more on what it returned.  orbit_state.vertices is the    *)
(* argument of the first call, calls the calls with what they returned.    *)
(***************************************************************************)
MaxShift == 1

\* The method is the same, line by line, in TorusQuotientBuilder and in
\* GroupBoxEdgeBuilder.  The arguments are tuples of distinct lattice points
\* from MaxShift box widths below the box to one box width above it.
InitCanon ==
    /\ \E c \in
            {[side_length |-> <<3>>, builder_class |-> "TorusQuotientBuilder"],
             [side_length |-> <<2, 1>>, builder_class |-> "GroupBoxEdgeBuilder"]} :
         /\ side_length = c.side_length
         /\ builder_class = c.builder_class
         /\ \E vertices \in
                DistinctTuples(
                    cartesian_product([i \in 1..Len(c.side_length) |->
                        (0 - (MaxShift * c.side_length[i]))..(2 * c.side_length[i])]),
                    MaxOrbitVertices) :
              orbit_state = [NoOrbit EXCEPT !.vertices = vertices]
    /\ group_gens = <<>>
    /\ sorted_simplices = EmptyDict
    /\ simplices = EmptyDict
    /\ boundary = EmptyDict
    /\ calls = <<>>
    /\ pc = "idle"
    /\ stack = <<>>
    /\ yielded = EmptyDict
    /\ class_map = EmptyDict
    /\ cells = NoCells
    /\ heap = EmptyDict
    /\ pool = {}

\* builder._make_fundamental_region_simplex(*vertices)
CanonCall(vertices, next) ==
    /\ LET r == _make_fundamental_region_simplex(Builder, side_length, vertices)
       IN  /\ SetBuilder(r.b)
           /\ calls' = Append(calls, [vertices |-> vertices, err |-> r.err,
                                      ret |-> r.ret])
    /\ pc' = next
    /\ UNCHANGED <<side_length, group_gens, stack, yielded, pool, builder_class,
                   class_map, cells, heap, orbit_state>>

\* The first call, on the argument
Canonicalize ==
    /\ pc = "idle"
    /\ CanonCall(orbit_state.vertices, "canonical")

\* The second call, on the simplex that the first returned
CanonicalizeAgain ==
    /\ pc = "canonical"
    /\ calls[1].err = "none"
    /\ CanonCall(calls[1].ret, "done")

NextCanon ==
    \/ Canonicalize
    \/ CanonicalizeAgain

SpecCanon == InitCanon /\ [][NextCanon]_vars

(***************************************************************************)
(* Claims about the builder (specification Spec).                          *)
(***************************************************************************)
Succeeded(k) == calls[k].err = "none"
SameKey(i, j) == sorted(calls[i].vertices) = sorted(calls[j].vertices)
AllCallsSucceeded == \A k \in 1..Len(calls) : Succeeded(k)

\* C1 as stated: of any two add_simplex calls given the same vertices, a
\* second call in a different order fails with VertexOrderError, and two
\* calls in the same order both succeed and return equal simplices.
C1_AsStated ==
    \A i, j \in 1..Len(calls) :
        (i < j /\ SameKey(i, j)) =>
            IF calls[i].vertices # calls[j].vertices
            THEN calls[j].err = "VertexOrderError"
            ELSE Succeeded(i) /\ Succeeded(j) /\ calls[i].ret = calls[j].ret

\* C1 as amended: when the earlier of two add_simplex calls given the same
\* vertices succeeded, a later call in a different order fails with
\* VertexOrderError, and a later call in the same order succeeds and returns
\* an equal simplex.
C1_OrderConsistency ==
    \A i, j \in 1..Len(calls) :
        (i < j /\ SameKey(i, j) /\ Succeeded(i)) =>
            IF calls[i].vertices # calls[j].vertices
            THEN calls[j].err = "VertexOrderError"
            ELSE Succeeded(j) /\ calls[i].ret = calls[j].ret

\* Both cases of C1 in one run: a triangle added, refused in another order,
\* and accepted again in its first order.
C1_Witness ==
    /\ Len(calls) = 3
    /\ Len(calls[1].vertices) = 3
    /\ Succeeded(1)
    /\ SameKey(1, 2) /\ calls[2].vertices # calls[1].vertices
    /\ calls[2].err = "VertexOrderError"
    /\ calls[3].vertices = calls[1].vertices
    /\ Succeeded(3)

\* C2: after successful add_simplex calls only, every simplex s of the table
\* has a boundary entry, and for all face indices i < j (0-based)
\* boundary[boundary[s][i]][j-1] = boundary[boundary[s][j]][i]: the
\* assertion of CellCollection.test holds on the builder's own cells.
C2_BoundaryOfBoundary ==
    AllCallsSucceeded =>
        \A dim \in DOMAIN simplices : \A s \in simplices[dim] :
            /\ s \in DOMAIN boundary
            /\ \A j \in 0..(dim - 1) : \A i \in 0..(j - 1) :
                 /\ boundary[s][i + 1] \in DOMAIN boundary
                 /\ boundary[s][j + 1] \in DOMAIN boundary
                 /\ boundary[boundary[s][i + 1]][j] = boundary[boundary[s][j + 1]][i + 1]

\* A triangle is in the table after successful calls, so that the pairs
\* (0,1), (0,2) and (1,2) of face indices are all compared.
C2_Witness ==
    /\ calls # <<>>
    /\ AllCallsSucceeded
    /\ simplices_at(simplices, 3) # {}

\* s without its i-th vertex (1-based), the others in their order.
WithoutVertex(s, i) ==
    [k \in 1..(Len(s) - 1) |-> IF k < i THEN s[k] ELSE s[k + 1]]

\* s and all its faces down to single vertices are in the table under their
\* vertex count and have as boundary entry the tuple of their faces.
RECURSIVE FacesInserted(_)
FacesInserted(s) ==
    /\ s \in simplices_at(simplices, Len(s))
    /\ s \in DOMAIN boundary
    /\ Len(boundary[s]) = Len(s)
    /\ \A i \in 1..Len(s) : boundary[s][i] = WithoutVertex(s, i)
    /\ Len(s) > 1 => \A i \in 1..Len(s) : FacesInserted(WithoutVertex(s, i))

\* C3: once add_simplex(v0,...,vk) has returned, the boundary entry of the
\* simplex is the tuple of its k+1 faces, the i-th being the simplex without
\* vertex i, and every face, recursively down to single vertices, is in the
\* table under its vertex count with its own boundary entry.
C3_FacesInserted ==
    \A k \in 1..Len(calls) :
        (Succeeded(k) /\ calls[k].vertices # <<>>) => FacesInserted(calls[k].ret)

\* A triangle was added with success.
C3_Witness ==
    \E k \in 1..Len(calls) : Succeeded(k) /\ Len(calls[k].vertices) = 3

(***************************************************************************)
(* Claims about the search (specification SpecSearch).                     *)
(***************************************************************************)
\* The finder the consumer called edge_orientations_iter on
StartFinder == TriangulationEdgeFinder(Builder)

\* C4, for the start states whose own orientation graph is acyclic (the
\* claim says it of every start state): every finder yielded by
\* edge_orientations_iter has no triangulation edge left and an acyclic
\* orientation graph.
C4_YieldedAcyclic ==
    (pc # "build" /\ is_directed_acyclic(StartFinder.unit_graph)) =>
        \A finder \in DOMAIN yielded :
            /\ triangulation_edges(finder, Dimension) = {}
            /\ is_directed_acyclic(finder.unit_graph)

\* The edges left to the start state, those of reversed turned around
Oriented(reversed) ==
    {IF e \in reversed THEN <<e[2], e[1]>> ELSE e :
        e \in triangulation_edges(StartFinder, Dimension)}

\* add_simplex_orbit of the oriented edges, one after another: the set of
\* the possible outcomes.  Whether the insertions all return, and the
\* builder they leave then, is the same in every order of the edges.
InsertOrbits(edges) ==
    add_edge_orbits(Builder, side_length, group_gens, one_order(edges))

\* The complete state that orienting all edges left as in Oriented(reversed)
\* leads to, and whether it is valid: no insertion raises and the
\* orientation graph is acyclic
Completed(reversed) ==
    Bind(InsertOrbits(Oriented(reversed)), LAMBDA outcomes :
        Bind(CHOOSE r \in outcomes : TRUE, LAMBDA r :
            Bind(TriangulationEdgeFinder(r.b).unit_graph, LAMBDA g :
                [valid |-> (\A x \in outcomes : x.err = "none")
                               /\ is_directed_acyclic(g),
                 unit_graph |-> g])))

\* The orientation graphs of the valid complete states
ValidGraphs ==
    {c.unit_graph :
        c \in {x \in {Completed(reversed) :
                        reversed \in SUBSET triangulation_edges(StartFinder, Dimension)} :
                 x.valid}}

\* C5: when edge_orientations_iter is exhausted, whichever edges it picked,
\* it has yielded a state for every valid way of orienting all edges left to
\* the start state: every orientation of these edges whose orbits insert one
\* after another without VertexOrderError and give an acyclic orientation
\* graph is the orientation graph of a yielded state.
C5_AllValidYielded ==
    pc = "done" => ValidGraphs \subseteq {finder.unit_graph : finder \in DOMAIN yielded}

\* The search is exhausted from a start state with an edge left that fits in
\* both orientations, and has yielded the two valid complete states.
C5_Witness ==
    /\ pc = "done"
    /\ triangulation_edges(StartFinder, Dimension) # {}
    /\ Cardinality(ValidGraphs) >= 2
    /\ ValidGraphs \subseteq {finder.unit_graph : finder \in DOMAIN yielded}

(***************************************************************************)
(* Claims about the relation and the quotient (specification SpecRel).     *)
(***************************************************************************)
OnlyIdentifyCalls == \A k \in 1..Len(calls) : calls[k].op = "identify"

\* C6, for three different simplices a, b, c (the claim says it of any
\* three): identify(a, b) and then identify(b, c) on a fresh relation leave
\* every simplex of the builder with the class that identify(a, b, c) on a
\* fresh relation gives it.
C6_TwoStepsAsOne ==
    (/\ Len(calls) = 2
     /\ OnlyIdentifyCalls
     /\ Len(calls[1].given) = 2 /\ Len(calls[2].given) = 2
     /\ calls[1].given[2] = calls[2].given[1]
     /\ Cardinality(Range(calls[1].given) \cup Range(calls[2].given)) = 3)
    => LET a == calls[1].given[1]
           b == calls[1].given[2]
           c == calls[2].given[2]
           direct == identify(EmptyDict, boundary, <<a, b, c>>).class_map
       IN  \A s \in DOMAIN boundary : class_of(class_map, s) = class_of(direct, s)

\* The classes of the relation are a partition of the simplices
IsPartition(cm) ==
    \A s \in DOMAIN boundary :
        /\ s \in class_of(cm, s)
        /\ \A m \in class_of(cm, s) : class_of(cm, m) = class_of(cm, s)

\* C7: after any sequence of identify calls every member of the class of a
\* simplex has that same class, so that the classes are a partition.
C7_ClassesArePartition == OnlyIdentifyCalls => IsPartition(class_map)

\* The i-th faces of the given simplices have one class, and so on for the
\* faces of these faces
RECURSIVE FacesIdentified(_)
FacesIdentified(given) ==
    \A i \in 1..Len(boundary[given[1]]) :
        LET faces == [k \in 1..Len(given) |-> boundary[given[k]][i]]
        IN  /\ \A j, k \in 1..Len(given) :
                  class_of(class_map, faces[j]) = class_of(class_map, faces[k])
            /\ FacesIdentified(faces)

\* C8: when identify(s1, ..., sn) has returned, the i-th faces of s1, ..., sn
\* have one class for every i, and so have the faces of these faces, down
\* to the vertices.
C8_FacesIdentified ==
    (/\ pc = "relate"
     /\ calls # <<>>
     /\ calls[Len(calls)].op = "identify"
     /\ calls[Len(calls)].err = "none")
    => FacesIdentified(calls[Len(calls)].given)

\* C9: the quotient has at each dimension the classes of the simplices of
\* that dimension, and the boundary entry of the class of a simplex is the
\* tuple of the classes of the faces of that simplex, for every simplex of
\* the class.
C9_QuotientOfAnyMember ==
    pc = "quotient" =>
        /\ \A dim \in 0..(Dimension + 1) :
               cells.simplices[dim] =
                   {class_of(class_map, s) : s \in simplices_at(simplices, dim)}
        /\ \A key \in DOMAIN boundary :
               cells.boundary[class_of(class_map, key)] =
                   quotient_entry(class_map, boundary[key])

(***************************************************************************)
(* Claims about orbit (specification SpecOrbit).                           *)
(***************************************************************************)
\* The image of a simplex under a generator, translated back into the box
CanonicalImage(gen, simplex) == fundamental_region(map_gen(gen, simplex), side_length, 1)

\* The simplex lies in the fundamental box: it is what
\* _make_fundamental_region_simplex makes of it.  The torus images that
\* GroupBoxEdgeBuilder adds to an orbit do not.
InFundamentalRegion(simplex) == fundamental_region(simplex, side_length, 1) = simplex

\* The generator maps the periods of the torus to periods: the image of the
\* period along each axis, taken from the image of the origin, is a whole
\* number of box widths along every axis.
PreservesPeriods(gen) ==
    LET origin == [c \in 1..Len(side_length) |-> 0]
    IN  \A i \in 1..Len(side_length) :
            LET period == [origin EXCEPT ![i] = side_length[i]]
            IN  \A j \in 1..Len(side_length) :
                    (apply_gen(gen, period)[j] - apply_gen(gen, origin)[j])
                        % side_length[j] = 0

\* The simplices of the orbit whose image under some generator, translated
\* back into the fundamental box, is not in the orbit
NotClosedAt(orbit_set) ==
    {simplex \in orbit_set :
        \E g \in 1..Len(group_gens) :
            CanonicalImage(group_gens[g], simplex) \notin orbit_set}

\* C10 as stated: every orbit that orbit returns is closed: for each of its
\* simplices and each generator, the image of the simplex under the
\* generator, translated back into the fundamental box, is in the orbit.
C10_AsStated ==
    \A k \in 1..Len(calls) :
        calls[k].err = "none" => NotClosedAt(calls[k].ret) = {}

\* C10: in every orbit that orbit returns, each simplex that lies in the
\* fundamental box has its image under each generator, translated back into
\* the box, in the orbit; the torus images of GroupBoxEdgeBuilder, which lie
\* outside the box, have it too when every generator maps the periods of
\* the torus to periods.
C10_OrbitClosed ==
    \A k \in 1..Len(calls) :
        calls[k].err = "none" =>
            /\ \A simplex \in NotClosedAt(calls[k].ret) : ~ InFundamentalRegion(simplex)
            /\ (\A g \in 1..Len(group_gens) : PreservesPeriods(group_gens[g]))
                   => NotClosedAt(calls[k].ret) = {}
            /\ builder_class = "TorusQuotientBuilder"
                   => NotClosedAt(calls[k].ret) = {}

\* orbit has returned an orbit with a simplex that is two generator steps
\* away from the start and with a torus image of the GroupBoxEdgeBuilder,
\* under generators that map periods to periods.
C10_Witness ==
    \E k \in 1..Len(calls) :
        /\ calls[k].err = "none"
        /\ builder_class = "GroupBoxEdgeBuilder"
        /\ \A g \in 1..Len(group_gens) : PreservesPeriods(group_gens[g])
        /\ LET start == fundamental_region(calls[k].vertices, side_length, 1)
               first == {CanonicalImage(group_gens[g], start) : g \in 1..Len(group_gens)}
           IN  /\ calls[k].ret \ ({start} \cup first) # {}
               /\ \E simplex \in calls[k].ret :
                      fundamental_region(simplex, side_length, 1) # simplex

(***************************************************************************)
(* Claims about top_orbit_iter (specification SpecTop).                    *)
(***************************************************************************)
TopSimplices == simplices_at(simplices, Dimension + 1)

\* The orbit that the suspended generator has yielded and not yet taken
\* out of the pool
HeldOrbit == IF pc = "yield" THEN orbit_state.orbit ELSE {}

\* C11: the orbits that top_orbit_iter has yielded are pairwise disjoint
\* and each was yielded once; together with the pool they are the
\* top-dimensional simplices of the builder, and the pool holds none of
\* their simplices but those of the orbit yielded last while the generator
\* is suspended at that yield, so that they are all the top-dimensional
\* simplices when the generator returns; and when the assertion ends the
\* iteration, the orbit computed has a simplex that is not in the pool, and
\* the step that raises yields nothing.
C11_OrbitsPartition ==
  /\ [][pc' = "raised" => yielded' = yielded]_vars
  /\ [](pc \in {"top", "yield", "done", "raised"} =>
        /\ \A o1, o2 \in DOMAIN yielded : o1 = o2 \/ o1 \cap o2 = {}
        /\ \A o \in DOMAIN yielded : yielded[o] = 1 /\ o # {}
        /\ (UNION (DOMAIN yielded)) \cup pool = TopSimplices
        /\ (UNION (DOMAIN yielded)) \cap pool = HeldOrbit
        /\ pc = "yield" => HeldOrbit \in DOMAIN yielded
        /\ pc = "done" => pool = {} /\ UNION (DOMAIN yielded) = TopSimplices
        /\ \A k \in 1..Len(calls) :
               (calls[k].op = "top_orbit_iter" /\ calls[k].err = "AssertionError") =>
                   ~ (calls[k].orbit \subseteq pool))

\* top_orbit_iter has returned to the loop of quotient_relation after it
\* yielded two orbits of two simplices, which the relation identifies
C11_Witness ==
    /\ pc = "done"
    /\ stack # <<>>
    /\ Cardinality(DOMAIN yielded) >= 2
    /\ \A o \in DOMAIN yielded :
           /\ Cardinality(o) >= 2
           /\ \A simplex \in o : class_of(class_map, simplex) = o

\* The generator is suspended at its second yield, the orbit in the pool
C11_WitnessSuspended ==
    /\ pc = "yield"
    /\ Cardinality(DOMAIN yielded) >= 2
    /\ orbit_state.orbit \subseteq pool

\* The assertion has ended an iteration that had yielded an orbit before
C11_WitnessAbort ==
    /\ pc = "raised"
    /\ calls # <<>> /\ calls[Len(calls)].err = "AssertionError"
    /\ yielded # EmptyDict

(***************************************************************************)
(* Claims about the pruning by obvious edges (specification SpecSearch).   *)
(***************************************************************************)
\* C12, its last part: no state that edge_orientations_iter yields has an
\* edge that obvious_edge_iter returns for the start state oriented the
\* other way.
C12_NoObviousEdgeReversed ==
    yielded # EmptyDict =>
        \A edge \in obvious_edge_iter(StartFinder, side_length, group_gens) :
            \A finder \in DOMAIN yielded :
                <<edge[2], edge[1]>> \notin finder.unit_graph.E


(***************************************************************************)
(* Orbits and fitting orientations, from the geometry of the box: what     *)
(* the claims about the finder (specification SpecFinder) are stated with. *)
(***************************************************************************)
Reversed(edge) == <<edge[2], edge[1]>>

\* The simplex moved by whole box widths, up to two along each axis
LatticeTranslates(simplex) ==
    {[k \in 1..Len(simplex) |->
         [c \in 1..Dimension |-> simplex[k][c] + (n[c] * side_length[c])]] :
        n \in [1..Dimension -> -2..2]}

\* The translate of the simplex whose least coordinate along each axis is
\* in the box without its upper faces
Canonical(simplex) ==
    CHOOSE t \in LatticeTranslates(simplex) :
        \A c \in 1..Dimension :
            Min({t[k][c] : k \in 1..Len(t)}) \in 0..(side_length[c] - 1)

\* The least set of simplices that holds S and with a simplex its image
\* under each generator, moved into the box
RECURSIVE GroupClosure(_)
GroupClosure(S) ==
    LET next == S \cup {Canonical(map_gen(group_gens[g], simplex)) :
                           simplex \in S, g \in 1..Len(group_gens)}
    IN  IF next = S THEN S ELSE GroupClosure(next)

\* The simplex and its translates by one box width along the axes in whose
\* lower face it lies
TorusImages(simplex) ==
    LET axes == {c \in 1..Dimension : \A k \in 1..Len(simplex) : simplex[k][c] = 0}
    IN  {[k \in 1..Len(simplex) |->
             [c \in 1..Dimension |->
                 IF c \in A THEN simplex[k][c] + side_length[c] ELSE simplex[k][c]]] :
            A \in SUBSET axes}

\* The orbit of an oriented edge in a GroupBoxEdgeBuilder
OrbitOf(edge) == UNION {TorusImages(simplex) : simplex \in GroupClosure({Canonical(edge)})}

\* The vertex orders that the registry of the builder holds
RegisteredOrders(b) == {b.sorted_simplices[key] : key \in DOMAIN b.sorted_simplices}

\* Two of the simplices have the same vertices in different orders
Conflicting(orders) ==
    \E s, t \in orders : s # t /\ Len(s) = Len(t) /\ Range(s) = Range(t)

\* The orbits of the oriented edges do not go into the builder together:
\* two of their simplices, or one of them and the registry, disagree on the
\* order of the vertices of a simplex
OrbitsConflict(b, edges) ==
    Conflicting(RegisteredOrders(b) \cup UNION {OrbitOf(edge) : edge \in edges})

\* The vertices that paths along the edges of E lead to from those of S
RECURSIVE ReachableFrom(_, _)
ReachableFrom(E, S) ==
    LET next == S \cup {e[2] : e \in {x \in E : x[1] \in S}}
    IN  IF next = S THEN S ELSE ReachableFrom(E, next)

\* A path along the edges of E leads from a vertex back to it
HasCycle(E) == \E e \in E : e[1] \in ReachableFrom(E, {e[2]})

\* The orientation fits the builder: its orbit goes into it without a
\* conflict of vertex orders, and the edges of the builder with those of
\* the orbit have no cycle
FitsIn(b, edge) ==
    /\ ~ OrbitsConflict(b, {edge})
    /\ ~ HasCycle({<<s[1], s[2]>> : s \in simplices_at(b.simplices, 2) \cup OrbitOf(edge)})

\* The step is a call of add_simplex or add_simplex_orbit by the client
ClientBuildStep ==
    /\ calls' # <<>>
    /\ calls'[1].op \in {"add_simplex", "add_simplex_orbit"}

\* The frame of the stack after the step that was on top of it before
TopAfter == stack'[Len(stack)]

(***************************************************************************)
(* The finder leaves itself alone (specification SpecFinder)               *)
(***************************************************************************)
\* A step of a method of the finder: a call that returns at once, or a
\* step of a call that is running
MethodStep ==
    /\ pc \in {"ready", "call"}
    /\ pc' \in {"call", "called"}
    /\ ~ ClientBuildStep

\* The finders that exist: those of the frames, and those that
\* edge_orientations_iter has yielded to the client
Finders ==
    {stack[i].self : i \in 1..Len(stack)}
        \cup (IF Len(stack) >= 2 /\ stack[2].op = "edge_orientations_iter"
              THEN DOMAIN yielded ELSE {})

\* The builder a method works on is not the builder of a finder: the local
\* variable of a call never refers to the builder of its self or of the
\* self of a call below it, and the finders of the recursive calls of
\* edge_orientations_iter each have a builder of their own
OwnBuilders ==
    /\ \A i \in 2..Len(stack) :
          \A k \in 1..i : stack[i].builder # stack[k].self.builder
    /\ \A i, j \in 2..Len(stack) :
          (i < j /\ stack[i].op = "edge_orientations_iter"
                 /\ stack[j].op = "edge_orientations_iter")
              => stack[i].self.builder # stack[j].self.builder

\* C13: no step of edge_orientations_iter, obvious_edge_iter,
\* with_obvious_edges_added, with_all_edges_to_origin or with_edge_added,
\* whether the call is run to its end, is left suspended or raises, changes
\* a finder: the builder of every finder that exists (registry, simplex
\* table, boundary map) is after the step what it was before, and so is the
\* finder (its builder and its unit_graph) of every call that is still
\* running; and what a call writes to is a builder of its own.  The second
\* orientation of an edge is so tried on the finder that the first one was
\* tried on.
C13_FinderUnchanged ==
    /\ [][MethodStep =>
            /\ \A finder \in Finders :
                  finder.builder \in DOMAIN Store'
                      => Store'[finder.builder] = Store[finder.builder]
            /\ \A i \in 1..Min({Len(stack), Len(stack')}) :
                  stack'[i].self = stack[i].self]_vars
    /\ []OwnBuilders

\* A call of edge_orientations_iter is about to try the second orientation
\* of its edge after the trial of the first has written to the copy of the
\* builder it was made on.
C13_Witness ==
    /\ pc = "call"
    /\ Top.op = "edge_orientations_iter"
    /\ Top.stage = "second"
    /\ Top.builder \in DOMAIN Store
    /\ Store[Top.builder] # Store[Top.self.builder]
    /\ OrbitsConflict(Store[Top.self.builder], {Top.edge})

\* A call of with_edge_added has raised VertexOrderError on its copy.
C13_WitnessRaised ==
    /\ pc = "called"
    /\ calls[1].op = "with_edge_added"
    /\ calls[1].err = "VertexOrderError"

\* obvious_edge_iter is left suspended at a yield with edges to come, and
\* its last trial has written to its copy of the builder.
C13_WitnessSuspended ==
    /\ Suspended
    /\ Top.todo # {}
    /\ Store[Top.builder] # Store[Top.self.builder]

(***************************************************************************)
(* VertexOrderError in the finder (specification SpecFinder)               *)
(***************************************************************************)
\* A call of edge_orientations_iter is on top of the stack at one of the
\* places of stages
SearchAt(stages) ==
    /\ pc = "call"
    /\ Top.op = "edge_orientations_iter"
    /\ Top.stage \in stages

\* The orientation (v0, v1) does not get through the trial of the call of
\* frame: the edge closes a cycle in the unit graph of its finder, or its
\* orbit does not go into the builder of the finder
TrialFails(frame, edge) ==
    \/ HasCycle(frame.self.unit_graph.E \cup {edge})
    \/ OrbitsConflict(Store[frame.self.builder], {edge})

\* The orientation that the call on top of the stack is about to try
TrialEdge == IF Top.stage = "first" THEN Top.edge ELSE Reversed(Top.edge)

\* Neither orientation of the edge that the call of frame picked gets
\* through
DeadEnd(frame) ==
    /\ TrialFails(frame, frame.edge)
    /\ TrialFails(frame, Reversed(frame.edge))

\* The triangulation edges of the finder with the origin as an end, turned
\* to end there
EndingAtOrigin(finder) ==
    LET origin == [c \in 1..Dimension |-> 0]
    IN  {<<edge[2], origin>> :
             edge \in {e \in triangulation_edges(finder, Dimension) : e[1] = origin}}
        \cup {e \in triangulation_edges(finder, Dimension) : e[2] = origin}

\* The exception of a call whose insertions conflict, or do not
Propagated(conflict) == IF conflict THEN "VertexOrderError" ELSE "none"

\* C14: edge_orientations_iter never raises to its consumer; a trial that
\* fails (the orientation closes a cycle, or add_simplex_orbit raises
\* VertexOrderError because the orbit conflicts with the registry) yields
\* nothing and raises nothing, and the generator goes on with the other
\* orientation, or to its end after the second, while one that does not
\* fail is followed by the recursive call; a call whose picked edge fails
\* in both orientations yields nothing and raises nothing up to its
\* return.  Elsewhere the conflict reaches the caller: add_simplex and
\* add_simplex_orbit of the client raise VertexOrderError when the simplex,
\* or the orbit, conflicts with the registry, with_edge_added and
\* with_all_edges_to_origin when the orbits they insert do, and
\* with_obvious_edges_added when the orbit of an edge it is handed does.
C14_VertexOrderErrorPrunes ==
    /\ []((pc = "called" /\ calls[1].op = "edge_orientations_iter")
             => calls[1].err = "none")
    /\ [][SearchAt({"first", "second"}) =>
            /\ pc' = "call"
            /\ yielded' = yielded
            /\ TopAfter.stage = (IF Top.stage = "first" THEN "second" ELSE "exit")
            /\ TopAfter.edge = Top.edge
            /\ Len(stack') = Len(stack) + (IF TrialFails(Top, TrialEdge) THEN 0 ELSE 1)]_vars
    /\ [][(SearchAt({"first", "second", "exit"}) /\ DeadEnd(Top)) =>
            /\ yielded' = yielded
            /\ Len(stack') <= Len(stack)
            /\ pc' = "called" => calls'[1].err = "none"]_vars
    /\ [][ClientBuildStep =>
            calls'[1].err =
                Propagated(IF calls'[1].op = "add_simplex"
                           THEN Conflicting(RegisteredOrders(Builder)
                                               \cup {calls'[1].edge})
                           ELSE OrbitsConflict(Builder, {calls'[1].edge}))]_vars
    /\ [][(pc = "ready" /\ pc' = "called") =>
            calls'[1].err =
                Propagated(OrbitsConflict(Store[stack[1].self.builder],
                               IF calls'[1].op = "with_edge_added"
                               THEN {calls'[1].edge}
                               ELSE EndingAtOrigin(stack[1].self)))]_vars
    /\ [][(pc = "call" /\ Top.op = "obvious_edge_iter" /\ Top.stage = "yield"
                       /\ Consumer.op = "with_obvious_edges_added") =>
            IF OrbitsConflict(Store[Consumer.builder], {Top.edge})
            THEN pc' = "called" /\ calls'[1].err = "VertexOrderError"
            ELSE pc' = "call"]_vars

\* A call of edge_orientations_iter has tried both orientations of the edge
\* it picked and add_simplex_orbit raised VertexOrderError for each.
C14_Witness ==
    /\ SearchAt({"exit"})
    /\ OrbitsConflict(Store[Top.self.builder], {Top.edge})
    /\ OrbitsConflict(Store[Top.self.builder], {Reversed(Top.edge)})
    /\ ~ HasCycle(Top.self.unit_graph.E \cup {Top.edge})
    /\ ~ HasCycle(Top.self.unit_graph.E \cup {Reversed(Top.edge)})

\* with_all_edges_to_origin has raised VertexOrderError to its caller.
C14_WitnessPropagates ==
    /\ pc = "called"
    /\ calls[1].op = "with_all_edges_to_origin"
    /\ calls[1].err = "VertexOrderError"

(***************************************************************************)
(* Claims about the builder with any caller (specification SpecBox).       *)
(***************************************************************************)
\* The step is a call of add_simplex with a vertex outside the box
\* The vertices are points of the box
InBox(vertices) == \A i \in 1..Len(vertices) : vertices[i] \in points(side_length)

OutOfBoxCall ==
    /\ calls'[1].op = "add_simplex"
    /\ ~ InBox(calls'[1].vertices)

\* C15: a call of add_simplex with a vertex outside the box fails, and the
\* registry, the simplex table and the boundary map are after the call what
\* they were before it.
C15_RejectedWithoutTrace ==
    [][OutOfBoxCall =>
         /\ calls'[1].err # "none"
         /\ UNCHANGED <<sorted_simplices, simplices, boundary>>]_vars

\* What the code keeps of C15: the call fails, and the simplex table and the
\* boundary map are unchanged.
C15_TablesUntouched ==
    [][OutOfBoxCall =>
         /\ calls'[1].err # "none"
         /\ UNCHANGED <<simplices, boundary>>]_vars

(***************************************************************************)
(* Relations, orbits and quotients as views of the builder                 *)
(***************************************************************************)
\* A step of a call of orbit
OrbitStep == pc = "orbit" \/ pc' = "orbit"

\* C16: computing an orbit, a relation or a quotient leaves the registry,
\* the simplex table and the boundary map of the builder as they were;
\* here for orbit, every step of it.
C16_ViewsReadOnly ==
    [][OrbitStep => UNCHANGED <<sorted_simplices, simplices, boundary>>]_vars

\* What the code keeps of C16: orbit leaves the simplex table and the
\* boundary map alone, and identify, torus_relation and quotient as well
\* when the table has an entry for every dimension they read.
C16_TablesUntouched ==
    [][(OrbitStep \/ class_map' # class_map \/ cells' # cells)
          => UNCHANGED <<simplices, boundary>>]_vars

\* identify and quotient leave the registry alone too.
C16_RegistryUntouched ==
    [][(calls' # calls \/ cells' # cells) => UNCHANGED sorted_simplices]_vars

(***************************************************************************)
(* The builder grows by insertion                                          *)
(***************************************************************************)
\* Every entry of the dict d is an entry of the dict e
Kept(d, e) == \A k \in DOMAIN d : k \in DOMAIN e /\ e[k] = d[k]

\* C17: over every call of add_simplex and of add_simplex_orbit, returning
\* or raising, the order recorded for a key of the registry stays recorded,
\* a simplex in the simplex table stays in it, and the boundary written for
\* a simplex stays as written.
C17_InsertionOnly ==
    [][/\ Kept(sorted_simplices, sorted_simplices')
       /\ \A dim \in DOMAIN simplices :
             simplices[dim] \subseteq simplices_at(simplices', dim)
       /\ Kept(boundary, boundary')]_vars

\* A call has raised VertexOrderError on a builder that holds a simplex
\* with its boundary in another order of the same vertices.
C17_Witness ==
    /\ calls # <<>>
    /\ calls[1].err = "VertexOrderError"
    /\ Len(calls[1].vertices) = 2
    /\ <<calls[1].vertices[2], calls[1].vertices[1]>> \in DOMAIN boundary

(***************************************************************************)
(* add_simplex is idempotent (specification Spec)                          *)
(***************************************************************************)
\* The call that the step appends to calls
NewCall == calls'[Len(calls')]

\* C18: a call of add_simplex with the vertices, in the same order, of a
\* call that returned before, or of a simplex that has its boundary in the
\* boundary map, returns the same simplex and leaves the registry, the
\* simplex table and the boundary map as they were.
C18_Idempotent ==
    [][/\ \A i \in 1..Len(calls) :
             (Succeeded(i) /\ NewCall.vertices = calls[i].vertices)
                => /\ NewCall.err = "none"
                   /\ NewCall.ret = calls[i].ret
                   /\ UNCHANGED <<sorted_simplices, simplices, boundary>>
       /\ NewCall.vertices \in DOMAIN boundary
             => /\ NewCall.err = "none"
                /\ NewCall.ret = NewCall.vertices
                /\ UNCHANGED <<sorted_simplices, simplices, boundary>>]_vars

\* An edge or a triangle was added twice in the same order, with a call
\* between the two that raised.
C18_Witness ==
    /\ Len(calls) = 3
    /\ calls[1].vertices = calls[3].vertices
    /\ Len(calls[1].vertices) >= 2
    /\ Succeeded(1)
    /\ ~ Succeeded(2)
    /\ Succeeded(3)

(***************************************************************************)
(* Boundary closure in face indices (specification Spec)                   *)
(***************************************************************************)
\* face_m(x), m counted from 0: the m-th entry of the boundary tuple of x
face(m, x) == boundary[x][m + 1]

\* The simplices that have their boundary written, with three vertices or
\* more (dimension 2 or more)
InsertedFrom2 == {s \in DOMAIN boundary : Len(s) >= 3}

\* The pairs i < j of face indices of s
FacePairs(s) == {p \in (0..(Len(s) - 1)) \X (0..(Len(s) - 1)) : p[1] < p[2]}

\* C19 as stated: for every inserted simplex s of dimension 2 or more and
\* all face indices i < j, face_j(face_i(s)) exists and equals
\* face_i(face_(j-1)(s)), the inner face taken first.
C19_AsStated ==
    \A s \in InsertedFrom2 : \A p \in FacePairs(s) :
        LET i == p[1]
            j == p[2]
        IN  /\ (j + 1) \in DOMAIN boundary[face(i, s)]
            /\ face(j, face(i, s)) = face(i, face(j - 1, s))

\* C19 with the indices the other way round: for every inserted simplex s
\* of dimension 2 or more and all face indices i < j, face_m(x) is x
\* without its m-th vertex, and face_i(face_j(s)) equals
\* face_(j-1)(face_i(s)), the inner face taken first.
C19_BoundaryClosure ==
    \A s \in InsertedFrom2 : \A p \in FacePairs(s) :
        LET i == p[1]
            j == p[2]
        IN  /\ face(i, s) = WithoutVertex(s, i + 1)
            /\ face(j, s) = WithoutVertex(s, j + 1)
            /\ face(i, face(j, s)) = face(j - 1, face(i, s))

\* A triangle has its boundary written, and a call before or after it has
\* raised.
C19_Witness ==
    /\ InsertedFrom2 # {}
    /\ ~ AllCallsSucceeded

(***************************************************************************)
(* The obvious edges (specification SpecFinder)                            *)
(***************************************************************************)
\* A call of obvious_edge_iter is on top of the stack and the step is a
\* pass of its for loop: an edge is gone from those still to come
ObviousEdgeStep ==
    /\ pc = "call"
    /\ Top.op = "obvious_edge_iter"
    /\ pc' = "call"
    /\ Len(stack') = Len(stack)
    /\ TopAfter.todo # obvious_todo(Top)

\* The step ends a call of obvious_edge_iter, which returns
ObviousEndStep ==
    /\ pc = "call"
    /\ Top.op = "obvious_edge_iter"
    /\ Len(stack') < Len(stack)
    /\ pc' = "called" => calls'[1].err = "none"

\* The step yields the oriented edge: the generator is suspended with it,
\* and the client has it when the client iterates
YieldsEdge(edge) ==
    /\ TopAfter.stage = "yield"
    /\ TopAfter.edge = edge
    /\ yielded' = IF Consumer.op = "client" THEN yield_add(yielded, edge) ELSE yielded

\* The client iterates obvious_edge_iter, or has done so to the end
ObviousEdgesOfClient ==
    \/ pc = "call" /\ stack[2].op = "obvious_edge_iter"
    \/ pc = "called" /\ calls[1].op = "obvious_edge_iter"

\* C20: each pass of the loop of obvious_edge_iter takes one edge of
\* triangulation_edges that it has not come to, and yields it in the
\* orientation that fits the builder of the finder when the other
\* orientation does not fit (its orbit conflicts with the registry, or
\* closes a cycle in the edge graph), and yields nothing when both or
\* neither fit; the generator returns when it has come to every edge; and
\* what it has yielded are orientations of edges of triangulation_edges,
\* each once and never both orientations of an edge.
C20_ObviousEdges ==
    /\ [][ObviousEdgeStep =>
            \E edge \in obvious_todo(Top) :
                /\ TopAfter.todo = obvious_todo(Top) \ {edge}
                /\ LET fit_01 == FitsIn(Store[Top.self.builder], edge)
                       fit_10 == FitsIn(Store[Top.self.builder], Reversed(edge))
                   IN  IF fit_01 /\ ~ fit_10 THEN YieldsEdge(edge)
                       ELSE IF fit_10 /\ ~ fit_01 THEN YieldsEdge(Reversed(edge))
                       ELSE TopAfter.stage = "loop" /\ yielded' = yielded]_vars
    /\ [][ObviousEndStep => obvious_todo(Top) = {}]_vars
    /\ [](ObviousEdgesOfClient =>
            \A edge \in DOMAIN yielded :
                /\ yielded[edge] = 1
                /\ Reversed(edge) \notin DOMAIN yielded
                /\ \/ edge \in triangulation_edges(stack[1].self, Dimension)
                   \/ Reversed(edge) \in triangulation_edges(stack[1].self, Dimension))

\* The edges that the suspended call of obvious_edge_iter passed over
\* before its first yield
PassedOver ==
    triangulation_edges(Top.self, Dimension)
        \ (Top.todo \cup {Top.edge, Reversed(Top.edge)})

\* obvious_edge_iter is suspended at its first yield, of an edge that fits
\* in this orientation alone, and has passed over an edge of which both
\* orientations fit.
C20_Witness ==
    /\ Suspended
    /\ DOMAIN yielded = {Top.edge}
    /\ FitsIn(Store[Top.self.builder], Top.edge)
    /\ ~ FitsIn(Store[Top.self.builder], Reversed(Top.edge))
    /\ \E edge \in PassedOver :
          /\ FitsIn(Store[Top.self.builder], edge)
          /\ FitsIn(Store[Top.self.builder], Reversed(edge))

\* obvious_edge_iter, iterated by the client, has yielded nothing and has
\* passed over an edge of which neither orientation fits.
C20_WitnessNeither ==
    /\ pc = "call"
    /\ Top.op = "obvious_edge_iter"
    /\ Top.stage = "loop"
    /\ Consumer.op = "client"
    /\ yielded = EmptyDict
    /\ \E edge \in triangulation_edges(Top.self, Dimension) \ Top.todo :
          /\ ~ FitsIn(Store[Top.self.builder], edge)
          /\ ~ FitsIn(Store[Top.self.builder], Reversed(edge))

(***************************************************************************)
(* The fundamental region (specification SpecCanon)                        *)
(***************************************************************************)
\* The least coordinate of the simplex on axis i
MinCoordinate(simplex, i) == Min({simplex[k][i] : k \in 1..Len(simplex)})

\* to is from moved by k box widths along axis i, vertex by vertex
MovedBy(from, to, i, k) ==
    \A n \in 1..Len(from) : to[n][i] = from[n][i] - (k * side_length[i])

\* C21: _make_fundamental_region_simplex returns as many vertices as it is
\* given, in their order, each moved on every axis by the same number k of
\* box widths, k being the least coordinate of the simplex on the axis
\* divided by the width and rounded down; the least coordinate of the
\* result on every axis is in [0, width); and the method returns its own
\* result unchanged.
C21_FundamentalRegion ==
    (pc \in {"canonical", "done"} /\ orbit_state.vertices # <<>>) =>
        LET given == orbit_state.vertices
            result == calls[1].ret
        IN  /\ calls[1].err = "none"
            /\ Len(result) = Len(given)
            /\ \A i \in 1..Len(side_length) :
                  /\ \E k \in (0 - (MaxShift + 1))..(MaxShift + 1) :
                        /\ k * side_length[i] <= MinCoordinate(given, i)
                        /\ MinCoordinate(given, i) < (k + 1) * side_length[i]
                        /\ MovedBy(given, result, i, k)
                  /\ MinCoordinate(result, i) \in 0..(side_length[i] - 1)
            /\ pc = "done" => (calls[2].err = "none" /\ calls[2].ret = result)

\* An edge with a negative coordinate that no multiple of the width divides
\* was canonicalized, and its result was canonicalized again.
C21_Witness ==
    /\ pc = "done"
    /\ Len(orbit_state.vertices) = 2
    /\ \E i \in 1..Len(side_length) :
          /\ MinCoordinate(orbit_state.vertices, i) < 0
          /\ MinCoordinate(orbit_state.vertices, i) % side_length[i] # 0
    /\ calls[1].ret # orbit_state.vertices

(***************************************************************************)
(* orbit terminates (specification SpecOrbitLive)                          *)
(***************************************************************************)
\* Every vertex of every simplex that the running call of orbit holds is a
\* point of the box
OrbitInBox ==
    \A s \in orbit_state.orbit \cup orbit_state.todo :
        \A k \in 1..Len(s) : s[k] \in points(side_length)

\* The least coordinate of every simplex that the running call holds is,
\* on every axis, in [0, width)
OrbitMinInBox ==
    \A s \in orbit_state.todo : \A i \in 1..Len(side_length) :
        MinCoordinate(s, i) \in 0..(side_length[i] - 1)

\* C22 as stated: every call of orbit returns or raises, and every image
\* it produces has all its vertices among the points of the box.
C22_AsStated ==
    /\ (pc = "orbit") ~> (pc = "idle")
    /\ [](pc = "orbit" => OrbitInBox)

\* C22 for the generators of the model, which are symmetries of the
\* lattice: every call of orbit returns or raises, and every image waiting
\* in todo has its least coordinate on every axis in [0, width).
C22_OrbitTerminates ==
    /\ (pc = "orbit") ~> (pc = "idle")
    /\ [](pc = "orbit" => OrbitMinInBox)

\* orbit has returned an orbit of several simplices, one of them with a
\* vertex outside the box.
C22_Witness ==
    /\ pc = "idle"
    /\ calls # <<>>
    /\ calls[1].err = "none"
    /\ Cardinality(calls[1].ret) >= 3
    /\ \E s \in calls[1].ret : \E k \in 1..Len(s) : s[k] \notin points(side_length)

(***************************************************************************)
(* Identifying a simplex with itself (specification SpecRel)               *)
(***************************************************************************)
\* The step is a call identify(a) or identify(a, ..., a)
SelfIdentification ==
    /\ Len(calls') = Len(calls) + 1
    /\ calls'[Len(calls')].op = "identify"
    /\ Cardinality(Range(calls'[Len(calls')].given)) = 1

\* C23: a call of identify with one simplex, given once or several times,
\* returns, and every simplex of the builder and of the relation has after
\* the call the class it had before it.
C23_SelfIdentifyNoOp ==
    [][SelfIdentification =>
         /\ calls'[Len(calls')].err = "none"
         /\ \A s \in DOMAIN boundary \cup DOMAIN class_map' :
               class_of(class_map', s) = class_of(class_map, s)]_vars

\* An edge was identified with another edge and then with itself, twice
\* given, and is in the class of the two.
C23_Witness ==
    /\ Len(calls) = 2
    /\ calls[1].op = "identify"
    /\ Cardinality(Range(calls[1].given)) = 2
    /\ calls[1].err = "none"
    /\ calls[2].op = "identify"
    /\ Len(calls[2].given) = 2
    /\ calls[2].given[1] = calls[2].given[2]
    /\ calls[2].given[1] \in Range(calls[1].given)
    /\ Len(calls[2].given[1]) = 2
    /\ Cardinality(class_of(class_map, calls[2].given[1])) = 2

(***************************************************************************)
(* The square (specification SpecSearch)                                   *)
(***************************************************************************)
\* The edges of the two triangles that share the diagonal from (0,0) to
\* (1,1) of the unit square, without direction
SquareTriangulationEdges ==
    {{<<0, 0>>, <<1, 0>>}, {<<1, 0>>, <<1, 1>>}, {<<0, 0>>, <<0, 1>>},
     {<<0, 1>>, <<1, 1>>}, {<<0, 0>>, <<1, 1>>}}

\* The edges of the graph g without their direction
Undirected(g) == {{e[1], e[2]} : e \in g.E}

\* The search was run to its end from the empty builder of the unit square
\* with no generators (the constructor of the finder has read its table)
SquareSearchDone ==
    /\ pc = "done"
    /\ side_length = <<1, 1>>
    /\ group_gens = <<>>
    /\ Builder = TriangulationEdgeFinder(NewBuilder).builder

\* The finder holds the square triangulation: the edges of its builder are
\* the five edges, each in one direction, and the directions have no cycle
IsSquareTriangulation(finder) ==
    /\ Undirected(edge_graph(finder.builder)) = SquareTriangulationEdges
    /\ Cardinality(edge_graph(finder.builder).E) = 5
    /\ finder.unit_graph.E = edge_graph(finder.builder).E
    /\ is_directed_acyclic(finder.unit_graph)

\* C24: edge_orientations_iter run from the empty builder of the unit
\* square with no generators has yielded at least one finder when it ends,
\* and one of the yielded finders holds the triangulation of the square by
\* the diagonal from (0,0) to (1,1): the four sides and that diagonal.
C24_SquareFound ==
    SquareSearchDone =>
        /\ DOMAIN yielded # {}
        /\ \E finder \in DOMAIN yielded : IsSquareTriangulation(finder)

\* The search from the empty builder of the square has ended, and has
\* yielded the triangulation with every edge directed away from (0,0) and
\* towards (1,1).
C24_Witness ==
    /\ SquareSearchDone
    /\ \E finder \in DOMAIN yielded :
          finder.unit_graph.E = {<<<<0, 0>>, <<1, 0>>>>, <<<<1, 0>>, <<1, 1>>>>,
                                 <<<<0, 0>>, <<0, 1>>>>, <<<<0, 1>>, <<1, 1>>>>,
                                 <<<<0, 0>>, <<1, 1>>>>}

(***************************************************************************)
(* The boundary of a vertex (specification Spec)                           *)
(***************************************************************************)
\* Every call so far was add_simplex of a single vertex, and returned
OnlyVerticesAdded ==
    /\ calls # <<>>
    /\ \A k \in 1..Len(calls) : Len(calls[k].vertices) = 1 /\ Succeeded(k)

\* C25: after add_simplex of single vertices only, each vertex added has
\* the empty tuple as its boundary, and nothing is inserted below the
\* vertices: no simplex without vertices is in the registry, in the simplex
\* table or in the boundary map.
C25_VertexHasNoFaces ==
    OnlyVerticesAdded =>
        /\ \A k \in 1..Len(calls) : boundary[calls[k].vertices] = <<>>
        /\ simplices_at(simplices, 0) = {}
        /\ <<>> \notin DOMAIN sorted_simplices
        /\ <<>> \notin DOMAIN boundary

\* What the code does instead: the boundary of a vertex is the 1-tuple of
\* the empty simplex, which is inserted with an empty boundary of its own.
C25_VertexOverEmptySimplex ==
    OnlyVerticesAdded =>
        /\ \A k \in 1..Len(calls) : boundary[calls[k].vertices] = << <<>> >>
        /\ simplices_at(simplices, 0) = {<<>>}
        /\ sorted_simplices[<<>>] = <<>>
        /\ boundary[<<>>] = <<>>

(***************************************************************************)
(* Termination of edge_orientations_iter (specification SpecSearchLive)    *)
(***************************************************************************)
\* The edges that the call of frame i still has to orient
EdgesLeft(i) == triangulation_edges(stack[i].finder, Dimension)

\* The orientation that the call of frame i committed for the recursive
\* call above it: its generator is past the first trial when the edge went
\* in as picked, and past the second when it went in reversed.
Committed(i) ==
    IF stack[i].stage = "second" THEN stack[i].edge
    ELSE <<stack[i].edge[2], stack[i].edge[1]>>

\* Every recursive call on the stack has strictly fewer edges left than its
\* caller, has the edge its caller committed in its graph in that direction,
\* and the number of recursive calls is at most the number of edges that the
\* outermost call had left.
RecursionDescends ==
    pc = "search" =>
        /\ \A i \in 1..(Len(stack) - 1) :
              /\ stack[i].stage \in {"second", "exit"}
              /\ EdgesLeft(i + 1) \subseteq EdgesLeft(i)
              /\ EdgesLeft(i + 1) # EdgesLeft(i)
              /\ Committed(i) \in stack[i + 1].finder.unit_graph.E
        /\ Len(stack) - 1 <= Cardinality(EdgesLeft(1))

\* C26: edge_orientations_iter always terminates: every recursive call is
\* on a finder with strictly fewer triangulation edges than its caller's and
\* with the committed edge in its graph, the recursion depth is at most the
\* number of edges the start state had left, and a run that was started
\* comes to its end.
C26_SearchTerminates ==
    /\ []RecursionDescends
    /\ (pc = "search") ~> (pc = "done")

\* A run from the empty builder, with all five edges of the unit square
\* left, is three recursive calls deep (an edge on the boundary of the box
\* takes its torus image with it) and the innermost call has no edge left:
\* it is about to yield.
C26_Witness ==
    /\ pc = "search"
    /\ Len(stack) = 4
    /\ Cardinality(EdgesLeft(1)) = 5
    /\ EdgesLeft(4) = {}
    /\ Top.stage = "enter"
    /\ RecursionDescends

(***************************************************************************)
(* No orientation is yielded twice (specification SpecSearch)              *)
(***************************************************************************)
\* C27: one run of edge_orientations_iter yields each complete orientation
\* at most once: no finder is yielded twice, and no two finders yielded have
\* the same orientation graph.
C27_YieldedOnce ==
    /\ \A f \in DOMAIN yielded : yielded[f] = 1
    /\ \A f, g \in DOMAIN yielded : f.unit_graph = g.unit_graph => f = g

\* A run that is over and yielded several orientations
C27_Witness ==
    /\ pc = "done"
    /\ Cardinality(DOMAIN yielded) >= 2
    /\ C27_YieldedOnce
====
